---------------------------- MODULE Spec2Model ----------------------------
(***************************************************************************)
(* State-machine model of the RAG service of rag-chatbot:                  *)
(*   src/api/app/services/rag_service.py  (RAGService)                     *)
(*   src/api/app/database.py              (DatabaseManager)                *)
(*   src/api/app/config.py                (Settings)                       *)
(*   src/api/main.py                      (the /chat endpoint)             *)
(*                                                                         *)
(* Text is modelled as a sequence of one-character strings, so that        *)
(* lower(), strip(), substring tests, split and join are computed on the   *)
(* characters as Python computes them.  Similarities are in hundredths     *)
(* (0.30 is 30).                                                           *)
(***************************************************************************)
EXTENDS Integers, Sequences, FiniteSets, TLC

(***************************************************************************)
(* Python str operations used by the service.                              *)
(***************************************************************************)
SetMin(S) == CHOOSE x \in S : \A y \in S : x <= y

SetMax(S) == CHOOSE x \in S : \A y \in S : x >= y

\* str.isspace() on the characters of the model's alphabet
IsSpace(c) == c \in {" ", "\t", "\n", "\r"}

\* str.strip(): leading and trailing whitespace removed
Strip(s) ==
    LET keep == {i \in 1..Len(s) : ~IsSpace(s[i])}
    IN  IF keep = {} THEN <<>> ELSE SubSeq(s, SetMin(keep), SetMax(keep))

UpperChars ==
    <<"A","B","C","D","E","F","G","H","I","J","K","L","M","N","O","P","Q","R","S","T","U","V",
      "W","X","Y","Z","Ç","Ã","Á","É","Í">>

LowerChars ==
    <<"a","b","c","d","e","f","g","h","i","j","k","l","m","n","o","p","q","r","s","t","u","v",
      "w","x","y","z","ç","ã","á","é","í">>

LowerChar(c) ==
    IF \E i \in 1..Len(UpperChars) : UpperChars[i] = c
    THEN LowerChars[CHOOSE i \in 1..Len(UpperChars) : UpperChars[i] = c]
    ELSE c

\* str.lower()
Lower(s) == [i \in 1..Len(s) |-> LowerChar(s[i])]

\* the positions at which sub occurs in s
Occurrences(s, sub) ==
    {i \in 1..(Len(s) - Len(sub) + 1) : SubSeq(s, i, i + Len(sub) - 1) = sub}

\* sub in s
Contains(s, sub) == Occurrences(s, sub) # {}

\* s.startswith(p)
StartsWith(s, p) == Len(s) >= Len(p) /\ SubSeq(s, 1, Len(p)) = p

\* s.replace(old, '', 1): the first occurrence of old removed
ReplaceFirst(s, old) ==
    IF ~Contains(s, old) THEN s
    ELSE LET i == SetMin(Occurrences(s, old))
         IN  SubSeq(s, 1, i - 1) \o SubSeq(s, i + Len(old), Len(s))

\* s.split('\n'): the pieces between the newlines, empty pieces kept
SplitLines(s) ==
    LET nl == {i \in 1..Len(s) : s[i] = "\n"}
        pos(k) == IF k = 0 THEN 0
                  ELSE IF k = Cardinality(nl) + 1 THEN Len(s) + 1
                  ELSE CHOOSE i \in nl : Cardinality({j \in nl : j < i}) = k - 1
    IN  [k \in 1..(Cardinality(nl) + 1) |-> SubSeq(s, pos(k - 1) + 1, pos(k) - 1)]

RECURSIVE Join(_, _)
\* sep.join(parts)
Join(parts, sep) ==
    IF parts = <<>> THEN <<>>
    ELSE IF Len(parts) = 1 THEN parts[1]
    ELSE parts[1] \o sep \o Join(Tail(parts), sep)


(***************************************************************************)
(* String literals of answer_question (rag_service.py).                    *)
(***************************************************************************)
\* "Ok! Contexto de documento limpo. Agora buscarei em todos os documentos disponíveis."
FORGET_ANSWER ==
    <<"O","k","!"," ","C","o","n","t","e","x","t","o"," ","d","e"," ","d","o","c","u","m","e",
      "n","t","o"," ","l","i","m","p","o","."," ","A","g","o","r","a"," ","b","u","s","c","a",
      "r","e","i"," ","e","m"," ","t","o","d","o","s"," ","o","s"," ","d","o","c","u","m","e",
      "n","t","o","s"," ","d","i","s","p","o","n","í","v","e","i","s",".">>

\* "No momento, não há documento ativo. Estou buscando em todos os documentos disponíveis."
NO_ACTIVE_DOCUMENT_ANSWER ==
    <<"N","o"," ","m","o","m","e","n","t","o",","," ","n","ã","o"," ","h","á"," ","d","o","c",
      "u","m","e","n","t","o"," ","a","t","i","v","o","."," ","E","s","t","o","u"," ","b","u",
      "s","c","a","n","d","o"," ","e","m"," ","t","o","d","o","s"," ","o","s"," ","d","o","c",
      "u","m","e","n","t","o","s"," ","d","i","s","p","o","n","í","v","e","i","s",".">>

\* "Estou priorizando o documento: **"
ACTIVE_DOCUMENT_PREFIX ==
    <<"E","s","t","o","u"," ","p","r","i","o","r","i","z","a","n","d","o"," ","o"," ","d","o",
      "c","u","m","e","n","t","o",":"," ","*","*">>

\* "** (enviado em "
ACTIVE_DOCUMENT_MIDDLE ==
    <<"*","*"," ","(","e","n","v","i","a","d","o"," ","e","m"," ">>

\* "Desculpe, o modelo demorou muito para responder. Tente uma pergunta mais simples ou aguarde um momento."
READ_TIMEOUT_ANSWER ==
    <<"D","e","s","c","u","l","p","e",","," ","o"," ","m","o","d","e","l","o"," ","d","e","m",
      "o","r","o","u"," ","m","u","i","t","o"," ","p","a","r","a"," ","r","e","s","p","o","n",
      "d","e","r","."," ","T","e","n","t","e"," ","u","m","a"," ","p","e","r","g","u","n","t",
      "a"," ","m","a","i","s"," ","s","i","m","p","l","e","s"," ","o","u"," ","a","g","u","a",
      "r","d","e"," ","u","m"," ","m","o","m","e","n","t","o",".">>

\* "Erro ao conectar com o modelo de IA. Verifique se o serviço Ollama está rodando."
CONNECT_ERROR_ANSWER ==
    <<"E","r","r","o"," ","a","o"," ","c","o","n","e","c","t","a","r"," ","c","o","m"," ","o",
      " ","m","o","d","e","l","o"," ","d","e"," ","I","A","."," ","V","e","r","i","f","i","q",
      "u","e"," ","s","e"," ","o"," ","s","e","r","v","i","ç","o"," ","O","l","l","a","m","a",
      " ","e","s","t","á"," ","r","o","d","a","n","d","o",".">>

\* "Erro ao gerar resposta: "
GENERIC_ERROR_PREFIX ==
    <<"E","r","r","o"," ","a","o"," ","g","e","r","a","r"," ","r","e","s","p","o","s","t","a",
      ":"," ">>

\* "Nenhum documento foi fornecido ainda."
NO_DOCUMENT_CONTEXT ==
    <<"N","e","n","h","u","m"," ","d","o","c","u","m","e","n","t","o"," ","f","o","i"," ","f",
      "o","r","n","e","c","i","d","o"," ","a","i","n","d","a",".">>

\* "Não encontrei informações relevantes nos documentos disponíveis."
NO_RELEVANT_CONTEXT ==
    <<"N","ã","o"," ","e","n","c","o","n","t","r","e","i"," ","i","n","f","o","r","m","a","ç",
      "õ","e","s"," ","r","e","l","e","v","a","n","t","e","s"," ","n","o","s"," ","d","o","c",
      "u","m","e","n","t","o","s"," ","d","i","s","p","o","n","í","v","e","i","s",".">>

\* "Contexto dos documentos:\n"
CONTEXT_HEADER ==
    <<"C","o","n","t","e","x","t","o"," ","d","o","s"," ","d","o","c","u","m","e","n","t","o",
      "s",":","\n">>

\* "\n\nPergunta: "
QUESTION_HEADER ==
    <<"\n","\n","P","e","r","g","u","n","t","a",":"," ">>

\* "Human: "
HUMAN_PREFIX ==
    <<"H","u","m","a","n",":"," ">>

\* "AI: "
AI_PREFIX ==
    <<"A","I",":"," ">>

\* the trigger phrases of the "forget document" command
FORGET_COMMANDS ==
    {<<"e","s","q","u","e","ç","a"," ","o"," ","d","o","c","u","m","e","n","t","o">>,
     <<"e","s","q","u","e","c","e","r"," ","d","o","c","u","m","e","n","t","o">>,
     <<"l","i","m","p","a","r"," ","c","o","n","t","e","x","t","o">>,
     <<"n","o","v","o"," ","c","o","n","t","e","x","t","o">>}

\* the trigger phrases of the "which document" command
WHICH_COMMANDS ==
    {<<"q","u","a","l"," ","d","o","c","u","m","e","n","t","o">>,
     <<"q","u","e"," ","d","o","c","u","m","e","n","t","o">>,
     <<"d","o","c","u","m","e","n","t","o"," ","a","t","i","v","o">>,
     <<"d","o","c","u","m","e","n","t","o"," ","a","t","u","a","l">>}

\* the system prompt of the generation request, abbreviated (no code
\* path inspects its text)
SYSTEM_PROMPT ==
    <<"V","o","c","ê"," ","é"," ","u","m"," ","a","s","s","i","s","t","e","n","t","e",".">>

(***************************************************************************)
(* Settings (config.py) and the literals of rag_service.py.                *)
(***************************************************************************)
TOP_K == 5

MAX_CONTEXT_CHARS == 2000

\* SIMILARITY_THRESHOLD = 0.3, in hundredths
SIMILARITY_THRESHOLD == 30

\* _load_history_from_db(session_id, limit=10)
HISTORY_LIMIT == 10

\* Python's None
None == "None"

(***************************************************************************)
(* Bounds of the model.                                                    *)
(***************************************************************************)
\* answer_question calls per behaviour
MaxCalls == 2

\* documents ingested per behaviour
MaxDocs == 1

Sessions == {"s1", "s2"}

\* the coroutines that can be inside answer_question at the same time
Requests == {1, 2}

\* uuid.uuid4(): the n-th document gets a fresh id
DocIdNames == <<"d1", "d2", "d3", "d4">>

(***************************************************************************)
(* Texts.  An element of a text is one character, or the name of a block   *)
(* of characters (the content of a chunk) whose length BlockLen gives.     *)
(***************************************************************************)
BlockLen(e) ==
    CASE e = "<400>" -> 400
      [] e = "<500>" -> 500
      [] e = "<1500>" -> 1500
      [] e = "<2500>" -> 2500
      [] OTHER -> 1

RECURSIVE PyLen(_)
\* len(text)
PyLen(text) == IF text = <<>> THEN 0 ELSE BlockLen(Head(text)) + PyLen(Tail(text))

\* the embedding model maps a text to a vector; vectors are points 0..3
Embeddings == {0, 1, 2, 3}

\* 1 - (c.embedding <=> query): 1.00, 0.30, 0.29, 0.05 at distance 0, 1, 2, 3
Similarity(query_embedding, embedding) ==
    LET d == IF query_embedding > embedding
             THEN query_embedding - embedding
             ELSE embedding - query_embedding
    IN  <<100, 30, 29, 5>>[d + 1]

VARIABLES
    documents,          \* table documents: rows [id, source, title, created_at]
    chunks,             \* table chunks: rows [document_id, chunk_index, content, embedding]
    chat_history,       \* table chat_history, in insertion order: rows [session_id, turn, role, content]
    memories,           \* RAGService.memories: session id -> list of [type, content]
    session_documents,  \* RAGService.session_documents: session id -> document id
    requests,           \* the answer_question coroutine of each request slot
    last,               \* the answer_question call that finished last
    calls,              \* the number of answer_question calls made
    returned            \* the last direct call of a helper: its arguments and its result

vars ==
    <<documents, chunks, chat_history, memories, session_documents, requests, last, calls,
      returned>>

(***************************************************************************)
(* The store (database.py: every execute_query is one committed            *)
(* transaction).                                                           *)
(***************************************************************************)
\* a result row of the search: chunk c joined with its document d
ResultRow(c, d, query_embedding) ==
    [content |-> c.content, title |-> d.title, source |-> d.source,
     document_id |-> d.id, similarity |-> Similarity(query_embedding, c.embedding)]

RECURSIVE OrderLimit(_, _, _)
\* ORDER BY c.embedding <=> query LIMIT k over the joined pairs: every order
\* the store may return (rows at the same distance come in any order)
OrderLimit(pairs, query_embedding, k) ==
    IF k = 0 \/ pairs = {} THEN {<<>>}
    ELSE LET sim(p) == Similarity(query_embedding, p[1].embedding)
             best == {p \in pairs : \A o \in pairs : sim(p) >= sim(o)}
         IN  UNION {{<<ResultRow(p[1], p[2], query_embedding)>> \o rest :
                        rest \in OrderLimit(pairs \ {p}, query_embedding, k - 1)} :
                    p \in best}

\* FROM chunks c JOIN documents d ON c.document_id = d.id
Joined(chunkRows, documentRows) ==
    {p \in chunkRows \X documentRows : p[1].document_id = p[2].id}

\* _search_similar_chunks changed: the chunks of the priority document are
\* used only when the best of them reaches the similarity threshold
SearchSimilarChunksThreshold(chunkRows, documentRows, query_embedding, top_k, prioritize_document_id) ==
    LET specific == {p \in Joined(chunkRows, documentRows) : p[2].id = prioritize_document_id}
        good == {p \in specific :
                    Similarity(query_embedding, p[1].embedding) >= SIMILARITY_THRESHOLD}
    IN  IF prioritize_document_id # None /\ good # {}
        THEN OrderLimit(specific, query_embedding, top_k)
        ELSE OrderLimit(Joined(chunkRows, documentRows), query_embedding, top_k)

\* _search_similar_chunks changed: the result of the search in the priority
\* document is returned even when it is empty
SearchSimilarChunksNoFallback(chunkRows, documentRows, query_embedding, top_k, prioritize_document_id) ==
    LET specific == {p \in Joined(chunkRows, documentRows) : p[2].id = prioritize_document_id}
    IN  IF prioritize_document_id # None
        THEN OrderLimit(specific, query_embedding, top_k)
        ELSE OrderLimit(Joined(chunkRows, documentRows), query_embedding, top_k)

\* best_similarity < 0.2, the test of the warning at line 263
LOW_SIMILARITY == 20

\* _search_similar_chunks changed: when the best chunk of the priority
\* document is below 0.2, the search goes on in all documents
SearchSimilarChunksLowFallsBack(chunkRows, documentRows, query_embedding, top_k, prioritize_document_id) ==
    LET specific == {p \in Joined(chunkRows, documentRows) : p[2].id = prioritize_document_id}
        low == \A p \in specific :
                   Similarity(query_embedding, p[1].embedding) < LOW_SIMILARITY
    IN  IF prioritize_document_id # None /\ specific # {} /\ ~low
        THEN OrderLimit(specific, query_embedding, top_k)
        ELSE OrderLimit(Joined(chunkRows, documentRows), query_embedding, top_k)

\* the results _search_similar_chunks may return (top_k = None is passed as
\* settings.TOP_K)
SearchSimilarChunks(chunkRows, documentRows, query_embedding, top_k, prioritize_document_id) ==
    LET k == top_k
        specific == {p \in Joined(chunkRows, documentRows) : p[2].id = prioritize_document_id}
    IN  IF prioritize_document_id # None /\ specific # {}
        THEN OrderLimit(specific, query_embedding, k)
        ELSE OrderLimit(Joined(chunkRows, documentRows), query_embedding, k)

\* _get_document_info: the row of the document in a list, the empty list for
\* None (no such row, or the query raised)
GetDocumentInfo(documentRows, document_id, storeOk) ==
    LET rows == {d \in documentRows : d.id = document_id}
    IN  IF storeOk /\ rows # {} THEN <<CHOOSE d \in rows : TRUE>> ELSE <<>>

\* the positions of a session's rows in chat_history
SessionRows(history, session_id) ==
    {i \in 1..Len(history) : history[i].session_id = session_id}

\* the SELECT changed: without WHERE session_id = %s
MaxTurnAnySession(history, session_id) ==
    IF history = <<>> THEN 0
    ELSE SetMax({history[i].turn : i \in 1..Len(history)})

\* SELECT COALESCE(MAX(turn), 0)
MaxTurn(history, session_id) ==
    IF SessionRows(history, session_id) = {} THEN 0
    ELSE SetMax({history[i].turn : i \in SessionRows(history, session_id)})

\* _save_message_to_db: the row is inserted with the next turn number; a
\* store error is logged and swallowed
SaveMessageToDb(history, session_id, role, content, storeOk) ==
    IF storeOk
    THEN Append(history, [session_id |-> session_id,
                          turn |-> MaxTurn(history, session_id) + 1,
                          role |-> role, content |-> content])
    ELSE history

RECURSIVE OrderByTurnDesc(_, _, _)
\* ORDER BY turn DESC LIMIT k over the rows at the positions idx: every order
\* the store may return
OrderByTurnDesc(history, idx, k) ==
    IF k = 0 \/ idx = {} THEN {<<>>}
    ELSE LET top == {i \in idx : \A j \in idx : history[i].turn >= history[j].turn}
         IN  UNION {{<<history[i]>> \o rest :
                        rest \in OrderByTurnDesc(history, idx \ {i}, k - 1)} :
                    i \in top}

Reverse(s) == [i \in 1..Len(s) |-> s[Len(s) + 1 - i]]

\* _load_history_from_db changed: the rows are returned as selected, newest
\* first
LoadHistoryFromDbNewestFirst(history, session_id, limit, storeOk) ==
    IF storeOk
    THEN OrderByTurnDesc(history, SessionRows(history, session_id), limit)
    ELSE {<<>>}

\* _load_history_from_db: the most recent rows, oldest first; [] when the
\* query raises
LoadHistoryFromDb(history, session_id, limit, storeOk) ==
    IF storeOk
    THEN {Reverse(rows) :
            rows \in OrderByTurnDesc(history, SessionRows(history, session_id), limit)}
    ELSE {<<>>}

(***************************************************************************)
(* Session memory (ConversationBufferMemory, return_messages=False).       *)
(***************************************************************************)
\* chat_memory.add_user_message / add_ai_message
AddUserMessage(memory, content) == Append(memory, [type |-> "human", content |-> content])

AddAiMessage(memory, content) == Append(memory, [type |-> "ai", content |-> content])

RECURSIVE ReloadMessages(_, _)
\* the loop of _get_memory over the loaded rows
ReloadMessages(memory, history) ==
    IF history = <<>> THEN memory
    ELSE LET msg == Head(history)
             next == IF msg.role = "user" THEN AddUserMessage(memory, msg.content)
                     ELSE IF msg.role = "assistant" THEN AddAiMessage(memory, msg.content)
                     ELSE memory
         IN  ReloadMessages(next, Tail(history))

\* _get_memory changed: a buffer that holds no message is loaded again
GetMemoryReloadsEmpty(mems, history, session_id, storeOk) ==
    IF session_id \in DOMAIN mems /\ mems[session_id] # <<>> THEN {mems}
    ELSE {[s \in DOMAIN mems \cup {session_id} |->
              IF s = session_id THEN ReloadMessages(<<>>, loaded) ELSE mems[s]] :
          loaded \in LoadHistoryFromDb(history, session_id, HISTORY_LIMIT, storeOk)}

\* _get_memory: the memories after the call (one for each history the store
\* may return)
GetMemory(mems, history, session_id, storeOk) ==
    IF session_id \in DOMAIN mems THEN {mems}
    ELSE {[s \in DOMAIN mems \cup {session_id} |->
              IF s = session_id THEN ReloadMessages(<<>>, loaded) ELSE mems[s]] :
          loaded \in LoadHistoryFromDb(history, session_id, HISTORY_LIMIT, storeOk)}

\* memory.load_memory_variables({})["chat_history"]: one "Human: ..." or
\* "AI: ..." line for each message, joined by newlines
HistoryText(memory) ==
    Join([i \in 1..Len(memory) |->
            (IF memory[i].type = "human" THEN HUMAN_PREFIX ELSE AI_PREFIX)
                \o memory[i].content],
         <<"\n">>)

\* the history messages answer_question rebuilds from history_text
ParseHistory(history_text) ==
    IF history_text = <<>> THEN <<>>
    ELSE LET split == SplitLines(history_text)
             lines == [i \in 1..Len(split) |-> Strip(split[i])]
             IsTurn(line) == StartsWith(line, HUMAN_PREFIX) \/ StartsWith(line, AI_PREFIX)
             turns == SelectSeq(lines, IsTurn)
         IN  [i \in 1..Len(turns) |->
                IF StartsWith(turns[i], HUMAN_PREFIX)
                THEN [role |-> "user", content |-> ReplaceFirst(turns[i], HUMAN_PREFIX)]
                ELSE [role |-> "assistant", content |-> ReplaceFirst(turns[i], AI_PREFIX)]]

(***************************************************************************)
(* Active document of a session.                                           *)
(***************************************************************************)
\* _set_session_document changed: the entry a session has is kept (setdefault)
SetSessionDocumentKeepsFirst(pins, session_id, document_id) ==
    [s \in DOMAIN pins \cup {session_id} |->
        IF s \in DOMAIN pins THEN pins[s] ELSE document_id]

\* _set_session_document
SetSessionDocument(pins, session_id, document_id) ==
    [s \in DOMAIN pins \cup {session_id} |->
        IF s = session_id THEN document_id ELSE pins[s]]

\* _get_session_document
GetSessionDocument(pins, session_id) ==
    IF session_id \in DOMAIN pins THEN pins[session_id] ELSE None

\* _clear_session_document changed: the dict is emptied
ClearSessionDocumentAll(pins, session_id) ==
    IF session_id \in DOMAIN pins THEN <<>> ELSE pins

\* _clear_session_document changed: the entry is not deleted
ClearSessionDocumentKeeps(pins, session_id) == pins

\* _clear_session_document
ClearSessionDocument(pins, session_id) ==
    IF session_id \in DOMAIN pins
    THEN [s \in DOMAIN pins \ {session_id} |-> pins[s]]
    ELSE pins

(***************************************************************************)
(* answer_question: the steps between its suspension points.               *)
(***************************************************************************)
\* question_lower = question.lower().strip()
QuestionLower(question) == Strip(Lower(question))

IsForgetCommand(question) ==
    \E cmd \in FORGET_COMMANDS : Contains(QuestionLower(question), cmd)

IsWhichCommand(question) ==
    \E cmd \in WHICH_COMMANDS : Contains(QuestionLower(question), cmd)

\* the response of the forget command
ForgetResponse == [answer |-> FORGET_ANSWER, sources |-> <<>>, context_size |-> 0]

\* the response changed: the document is named without its source entry
WhichResponseNoSource(documentRows, active_doc_id, storeOk) ==
    LET doc_info == IF active_doc_id # None
                    THEN GetDocumentInfo(documentRows, active_doc_id, storeOk)
                    ELSE <<>>
    IN  IF doc_info # <<>>
        THEN [answer |-> ACTIVE_DOCUMENT_PREFIX \o doc_info[1].title
                            \o ACTIVE_DOCUMENT_MIDDLE \o doc_info[1].created_at \o <<")">>,
              sources |-> <<>>,
              context_size |-> 0]
        ELSE [answer |-> NO_ACTIVE_DOCUMENT_ANSWER, sources |-> <<>>, context_size |-> 0]

\* the response of the which-document command, given the session's pin
WhichResponse(documentRows, active_doc_id, storeOk) ==
    LET doc_info == IF active_doc_id # None
                    THEN GetDocumentInfo(documentRows, active_doc_id, storeOk)
                    ELSE <<>>
    IN  IF doc_info # <<>>
        THEN [answer |-> ACTIVE_DOCUMENT_PREFIX \o doc_info[1].title
                            \o ACTIVE_DOCUMENT_MIDDLE \o doc_info[1].created_at \o <<")">>,
              sources |-> <<[title |-> doc_info[1].title, source |-> doc_info[1].source,
                             similarity |-> 100]>>,
              context_size |-> 0]
        ELSE [answer |-> NO_ACTIVE_DOCUMENT_ANSWER, sources |-> <<>>, context_size |-> 0]

\* prioritize_doc_id changed: the session's active document comes first
PrioritizeDocIdPinFirst(pins, session_id, recent_document_id) ==
    IF GetSessionDocument(pins, session_id) # None
    THEN GetSessionDocument(pins, session_id)
    ELSE recent_document_id

\* prioritize_doc_id: recent_document_id, else the session's active document
PrioritizeDocId(pins, session_id, recent_document_id) ==
    IF recent_document_id # None THEN recent_document_id
    ELSE GetSessionDocument(pins, session_id)

\* the test changed: every source_info is taken as new
InSourcesNever(sources, source_info) == FALSE

\* the test changed: title and source are compared, similarity is not
InSourcesByTitle(sources, source_info) ==
    \E i \in 1..Len(sources) :
        sources[i].title = source_info.title /\ sources[i].source = source_info.source

\* source_info not in sources
InSources(sources, source_info) == \E i \in 1..Len(sources) : sources[i] = source_info

RECURSIVE AssembleFromStrict(_, _, _)
\* the loop changed: a chunk at the threshold is skipped too
AssembleFromStrict(similar_chunks, i, acc) ==
    IF i > Len(similar_chunks) THEN acc
    ELSE LET chunk == similar_chunks[i]
             source_info == [title |-> chunk.title, source |-> chunk.source,
                             similarity |-> chunk.similarity]
         IN  IF chunk.similarity <= SIMILARITY_THRESHOLD
             THEN AssembleFromStrict(similar_chunks, i + 1, acc)
             ELSE IF acc.total_chars + PyLen(chunk.content) > MAX_CONTEXT_CHARS
             THEN acc
             ELSE AssembleFromStrict(similar_chunks, i + 1,
                     [context_parts |-> Append(acc.context_parts, chunk.content),
                      total_chars |-> acc.total_chars + PyLen(chunk.content),
                      sources |-> IF InSources(acc.sources, source_info)
                                  THEN acc.sources
                                  ELSE Append(acc.sources, source_info)])

RECURSIVE AssembleFromSkipsOversized(_, _, _)
\* the loop changed: a chunk that does not fit is skipped and the loop goes on
AssembleFromSkipsOversized(similar_chunks, i, acc) ==
    IF i > Len(similar_chunks) THEN acc
    ELSE LET chunk == similar_chunks[i]
             source_info == [title |-> chunk.title, source |-> chunk.source,
                             similarity |-> chunk.similarity]
         IN  IF chunk.similarity < SIMILARITY_THRESHOLD
             THEN AssembleFromSkipsOversized(similar_chunks, i + 1, acc)
             ELSE IF acc.total_chars + PyLen(chunk.content) > MAX_CONTEXT_CHARS
             THEN AssembleFromSkipsOversized(similar_chunks, i + 1, acc)
             ELSE AssembleFromSkipsOversized(similar_chunks, i + 1,
                     [context_parts |-> Append(acc.context_parts, chunk.content),
                      total_chars |-> acc.total_chars + PyLen(chunk.content),
                      sources |-> IF InSources(acc.sources, source_info)
                                  THEN acc.sources
                                  ELSE Append(acc.sources, source_info)])

RECURSIVE AssembleFrom(_, _, _)
\* the loop over similar_chunks from position i on; acc holds context_parts,
\* total_chars and sources
AssembleFrom(similar_chunks, i, acc) ==
    IF i > Len(similar_chunks) THEN acc
    ELSE LET chunk == similar_chunks[i]
             source_info == [title |-> chunk.title, source |-> chunk.source,
                             similarity |-> chunk.similarity]
         IN  IF chunk.similarity < SIMILARITY_THRESHOLD
             THEN AssembleFrom(similar_chunks, i + 1, acc)
             ELSE IF acc.total_chars + PyLen(chunk.content) > MAX_CONTEXT_CHARS
             THEN acc
             ELSE AssembleFrom(similar_chunks, i + 1,
                     [context_parts |-> Append(acc.context_parts, chunk.content),
                      total_chars |-> acc.total_chars + PyLen(chunk.content),
                      sources |-> IF InSources(acc.sources, source_info)
                                  THEN acc.sources
                                  ELSE Append(acc.sources, source_info)])

\* context_parts, sources and context built from similar_chunks
AssembleContext(similar_chunks) ==
    LET acc == AssembleFrom(similar_chunks, 1,
                            [context_parts |-> <<>>, total_chars |-> 0, sources |-> <<>>])
    IN  [context_parts |-> acc.context_parts,
         sources |-> acc.sources,
         context |-> IF similar_chunks = <<>> THEN NO_DOCUMENT_CONTEXT
                     ELSE IF acc.context_parts # <<>>
                     THEN Join(acc.context_parts, <<"\n", "\n">>)
                     ELSE NO_RELEVANT_CONTEXT]

\* context_size changed: total_chars, the characters of the chunks without
\* the "\n\n" between them
ContextSizeTotalChars(context_parts, context) ==
    IF context_parts # <<>> THEN PyLen(context) - 2 * (Len(context_parts) - 1) ELSE 0

\* context_size changed: len(context), also when context is one of the two
\* fixed sentences
ContextSizeOfAnyContext(context_parts, context) == PyLen(context)

\* "context_size": len(context) if context_parts else 0
ContextSize(context_parts, context) ==
    IF context_parts # <<>> THEN PyLen(context) ELSE 0

\* has_relevant_context changed: context_parts alone is tested
UserInputOfAnyParts(context_parts, context, question) ==
    IF context_parts # <<>>
    THEN CONTEXT_HEADER \o context \o QUESTION_HEADER \o question
    ELSE question

\* user_input: the context and the question, or the bare question
UserInput(context_parts, context, question) ==
    IF context_parts # <<>> /\ context \notin {NO_DOCUMENT_CONTEXT, NO_RELEVANT_CONTEXT}
    THEN CONTEXT_HEADER \o context \o QUESTION_HEADER \o question
    ELSE question

\* messages changed: the current input is added to the history before the
\* messages are built, and is sent twice
BuildMessagesAfterAppend(history_text, user_input) ==
    <<[role |-> "system", content |-> SYSTEM_PROMPT]>>
        \o ParseHistory(history_text)
        \o <<[role |-> "user", content |-> user_input]>>
        \o <<[role |-> "user", content |-> user_input]>>

\* messages changed: the current input is put before the history
BuildMessagesInputFirst(history_text, user_input) ==
    <<[role |-> "system", content |-> SYSTEM_PROMPT]>>
        \o <<[role |-> "user", content |-> user_input]>>
        \o ParseHistory(history_text)

\* messages: the system prompt, the history, the current input
BuildMessages(history_text, user_input) ==
    <<[role |-> "system", content |-> SYSTEM_PROMPT]>>
        \o ParseHistory(history_text)
        \o <<[role |-> "user", content |-> user_input]>>

(***************************************************************************)
(* The generation call.  An outcome is what client.post, raise_for_status, *)
(* response.json() and result["message"]["content"] do: raises is None     *)
(* and text the returned content, or raises names the exception class and  *)
(* text is str(e).                                                         *)
(***************************************************************************)
\* the classes an exception is an instance of (httpx's hierarchy)
ExceptionClasses(cls) ==
    CASE cls \in {"ReadTimeout", "ConnectTimeout", "WriteTimeout", "PoolTimeout"} ->
            {cls, "TimeoutException", "TransportError", "RequestError", "HTTPError", "Exception"}
      [] cls = "ConnectError" ->
            {cls, "NetworkError", "TransportError", "RequestError", "HTTPError", "Exception"}
      [] cls = "HTTPStatusError" -> {cls, "HTTPError", "Exception"}
      [] cls = "KeyError" -> {cls, "LookupError", "Exception"}
      [] OTHER -> {cls, "Exception"}

IsInstance(cls, handled) == handled \in ExceptionClasses(cls)

\* the try/except changed: without the last handler, except Exception
GenerationAnswerNarrow(outcome) ==
    IF outcome.raises = None
    THEN [raised |-> FALSE, answer |-> Strip(outcome.text)]
    ELSE IF IsInstance(outcome.raises, "ReadTimeout")
    THEN [raised |-> FALSE, answer |-> READ_TIMEOUT_ANSWER]
    ELSE IF IsInstance(outcome.raises, "ConnectError")
    THEN [raised |-> FALSE, answer |-> CONNECT_ERROR_ANSWER]
    ELSE [raised |-> TRUE, answer |-> <<>>]

\* the try/except around the call: the answer, or the exception it lets through
GenerationAnswer(outcome) ==
    IF outcome.raises = None
    THEN [raised |-> FALSE, answer |-> Strip(outcome.text)]
    ELSE IF IsInstance(outcome.raises, "ReadTimeout")
    THEN [raised |-> FALSE, answer |-> READ_TIMEOUT_ANSWER]
    ELSE IF IsInstance(outcome.raises, "ConnectError")
    THEN [raised |-> FALSE, answer |-> CONNECT_ERROR_ANSWER]
    ELSE IF IsInstance(outcome.raises, "Exception")
    THEN [raised |-> FALSE, answer |-> GENERIC_ERROR_PREFIX \o outcome.text]
    ELSE [raised |-> TRUE, answer |-> <<>>]

(***************************************************************************)
(* Inputs of the model.                                                    *)
(***************************************************************************)
\* the questions asked: "Esqueça o documento", " Documento ATUAL? ", "Oi"
Questions ==
    {<<"E","s","q","u","e","ç","a"," ","o"," ","d","o","c","u","m","e","n","t","o">>,
     <<" ","D","o","c","u","m","e","n","t","o"," ","A","T","U","A","L","?"," ">>,
     <<"O","i">>}

\* what the generation call does: a reply (" Olá.\n", " "), or an exception
\* with its str(e)
GenerationOutcomes ==
    {[raises |-> None, text |-> <<" ","O","l","á",".","\n">>],
     [raises |-> None, text |-> <<" ">>],
     [raises |-> "ReadTimeout", text |-> <<>>],
     [raises |-> "ConnectTimeout", text |-> <<>>],
     [raises |-> "ConnectTimeout", text |-> <<"t","i","m","e","d"," ","o","u","t">>],
     [raises |-> "ConnectError", text |-> <<"r","e","f","u","s","e","d">>],
     [raises |-> "HTTPStatusError", text |-> <<"5","0","0">>],
     [raises |-> "KeyError", text |-> <<"'","m","e","s","s","a","g","e","'">>]}

\* the uploaded files: the file name, and the chunks the text splitter and
\* the embedding model make of the extracted text (none for blank text)
Files ==
    {[filename |-> <<"a",".","t","x","t">>, chunks |-> <<>>],
     [filename |-> <<"b",".","t","x","t">>,
      chunks |-> <<[content |-> <<"<500>">>, embedding |-> 0],
                   [content |-> <<"<400>">>, embedding |-> 1],
                   [content |-> <<"<1500>">>, embedding |-> 3]>>]}

\* the embeddings of the questions
QueryEmbeddings == {0, 2}

\* a question that holds a forget phrase and a which-document phrase
MixedQuestion ==
    <<"L","i","m","p","a","r"," ","c","o","n","t","e","x","t","o"," ","d","o"," ",
      "d","o","c","u","m","e","n","t","o"," ","a","t","u","a","l">>

AllQuestions == Questions \cup {MixedQuestion}

\* the tests changed: the which-document phrases are looked for first
CommandOfWhichFirst ==
    [q \in AllQuestions |->
        IF IsWhichCommand(q) THEN "which"
        ELSE IF IsForgetCommand(q) THEN "forget"
        ELSE None]

\* the command a question is: "forget" is tested first, then "which"; None
\* for a question that is no command
CommandOf ==
    [q \in AllQuestions |->
        IF IsForgetCommand(q) THEN "forget"
        ELSE IF IsWhichCommand(q) THEN "which"
        ELSE None]

(***************************************************************************)
(* State.                                                                  *)
(***************************************************************************)
NoOutcome == [raises |-> None, text |-> <<>>]

NoResponse == [answer |-> <<>>, sources |-> <<>>, context_size |-> 0]

\* an answer_question call: its arguments, the active document of its session
\* when it was called, what it computed, the helpers whose store query raised
\* (errors), what it returned; path is None (no call), "forget", "which" or
\* "answer"
NoCall ==
    [call |-> 0, path |-> None, session_id |-> None, question |-> <<>>,
     recent_document_id |-> None, active_doc_id |-> None, prioritize_doc_id |-> None,
     searches |-> 0, similar_chunks |-> <<>>,
     context_parts |-> <<>>, context |-> <<>>, sources |-> <<>>,
     messages |-> <<>>, generations |-> 0, outcome |-> NoOutcome,
     saved |-> <<>>, errors |-> {}, raised |-> FALSE, response |-> NoResponse]

\* no helper was called directly
NoReturn == [function |-> None]

Init ==
    /\ documents = {}
    /\ chunks = {}
    /\ chat_history = <<>>
    /\ memories = <<>>
    /\ session_documents = <<>>
    /\ requests = [r \in Requests |-> NoCall]
    /\ last = NoCall
    /\ calls = 0
    /\ returned = NoReturn

(***************************************************************************)
(* process_document.                                                       *)
(***************************************************************************)
\* the timestamp the store gives the n-th document
CreatedAt(n) == <<"t", <<"1", "2", "3", "4">>[n]>>

UploadSource == <<"u", "p", "l", "o", "a", "d", ":">>

\* process_document changed: the document is made the active document of the
\* session right after the INSERT of its row, before the chunks are stored
ProcessDocumentPinsEarly(session_id, file, stored) ==
    LET n == Cardinality(documents) + 1
        doc_id == DocIdNames[n]
    IN  /\ stored >= 1
        /\ documents' = documents \cup
              {[id |-> doc_id, source |-> UploadSource \o file.filename,
                title |-> file.filename, created_at |-> CreatedAt(n)]}
        /\ chunks' = chunks \cup
              {[document_id |-> doc_id, chunk_index |-> idx - 1,
                content |-> file.chunks[idx].content,
                embedding |-> file.chunks[idx].embedding] : idx \in 1..(stored - 1)}
        /\ session_documents' =
              IF session_id # None
              THEN SetSessionDocument(session_documents, session_id, doc_id)
              ELSE session_documents
        /\ UNCHANGED <<chat_history, memories, requests, last, calls, returned>>

\* process_document changed: enumerate(chunks, 1), the chunk_index starts at 1
ProcessDocumentIndexFromOne(session_id, file, stored) ==
    LET n == Cardinality(documents) + 1
        doc_id == DocIdNames[n]
        complete == stored = Len(file.chunks) + 1
    IN  /\ stored >= 1
        /\ documents' = documents \cup
              {[id |-> doc_id, source |-> UploadSource \o file.filename,
                title |-> file.filename, created_at |-> CreatedAt(n)]}
        /\ chunks' = chunks \cup
              {[document_id |-> doc_id, chunk_index |-> idx,
                content |-> file.chunks[idx].content,
                embedding |-> file.chunks[idx].embedding] : idx \in 1..(stored - 1)}
        /\ session_documents' =
              IF complete /\ session_id # None
              THEN SetSessionDocument(session_documents, session_id, doc_id)
              ELSE session_documents
        /\ UNCHANGED <<chat_history, memories, requests, last, calls, returned>>

\* process_document changed: the document is made the active document inside
\* the chunk loop, when its first chunk is stored
ProcessDocumentPinsInLoop(session_id, file, stored) ==
    LET n == Cardinality(documents) + 1
        doc_id == DocIdNames[n]
    IN  /\ stored >= 1
        /\ documents' = documents \cup
              {[id |-> doc_id, source |-> UploadSource \o file.filename,
                title |-> file.filename, created_at |-> CreatedAt(n)]}
        /\ chunks' = chunks \cup
              {[document_id |-> doc_id, chunk_index |-> idx - 1,
                content |-> file.chunks[idx].content,
                embedding |-> file.chunks[idx].embedding] : idx \in 1..(stored - 1)}
        /\ session_documents' =
              IF stored >= 2 /\ session_id # None
              THEN SetSessionDocument(session_documents, session_id, doc_id)
              ELSE session_documents
        /\ UNCHANGED <<chat_history, memories, requests, last, calls, returned>>

\* process_document(file, session_id): stored is the number of INSERTs that
\* succeed (the document row, then one row for each chunk); the first that
\* fails raises, and the rows committed before it stay
ProcessDocument(session_id, file, stored) ==
    LET n == Cardinality(documents) + 1
        doc_id == DocIdNames[n]
        complete == stored = Len(file.chunks) + 1
    IN  /\ stored >= 1
        /\ documents' = documents \cup
              {[id |-> doc_id, source |-> UploadSource \o file.filename,
                title |-> file.filename, created_at |-> CreatedAt(n)]}
        /\ chunks' = chunks \cup
              {[document_id |-> doc_id, chunk_index |-> idx - 1,
                content |-> file.chunks[idx].content,
                embedding |-> file.chunks[idx].embedding] : idx \in 1..(stored - 1)}
        /\ session_documents' =
              IF complete /\ session_id # None
              THEN SetSessionDocument(session_documents, session_id, doc_id)
              ELSE session_documents
        /\ UNCHANGED <<chat_history, memories, requests, last, calls, returned>>

(***************************************************************************)
(* answer_question.                                                        *)
(***************************************************************************)
NewCall(path, session_id, question, recent_document_id) ==
    [NoCall EXCEPT !.call = calls + 1, !.path = path, !.session_id = session_id,
                   !.question = question, !.recent_document_id = recent_document_id,
                   !.active_doc_id = GetSessionDocument(session_documents, session_id)]

\* the forget command: lines 313-319
AnswerForget(session_id, question, recent_document_id) ==
    /\ CommandOf[question] = "forget"
    /\ session_documents' = ClearSessionDocument(session_documents, session_id)
    /\ last' = [NewCall("forget", session_id, question, recent_document_id)
                   EXCEPT !.response = ForgetResponse]
    /\ calls' = calls + 1
    /\ UNCHANGED <<documents, chunks, chat_history, memories, requests, returned>>

\* the which-document command changed: the buffer of the session is fetched
\* (and created) before the command is answered
AnswerWhichWithMemory(session_id, question, recent_document_id, storeOk) ==
    /\ CommandOf[question] = "which"
    /\ last' = [NewCall("which", session_id, question, recent_document_id)
                   EXCEPT !.errors =
                       IF GetSessionDocument(session_documents, session_id) # None
                          /\ ~storeOk
                       THEN {"_get_document_info"} ELSE {},
                          !.response =
                       WhichResponse(documents,
                                     GetSessionDocument(session_documents, session_id),
                                     storeOk)]
    /\ calls' = calls + 1
    /\ memories' \in GetMemory(memories, chat_history, session_id, storeOk)
    /\ UNCHANGED <<documents, chunks, chat_history, session_documents, requests, returned>>

\* the which-document command: lines 322-336
AnswerWhich(session_id, question, recent_document_id, storeOk) ==
    /\ CommandOf[question] = "which"
    /\ last' = [NewCall("which", session_id, question, recent_document_id)
                   EXCEPT !.errors =
                       IF GetSessionDocument(session_documents, session_id) # None
                          /\ ~storeOk
                       THEN {"_get_document_info"} ELSE {},
                          !.response =
                       WhichResponse(documents,
                                     GetSessionDocument(session_documents, session_id),
                                     storeOk)]
    /\ calls' = calls + 1
    /\ UNCHANGED <<documents, chunks, chat_history, memories, session_documents, requests,
                   returned>>

\* _load_history_from_db changed: without its try/except, the error of the
\* query leaves _get_memory and answer_question
LoadHistoryRaisesUncaught(mems, session_id, storeOk) ==
    session_id \notin DOMAIN mems /\ ~storeOk

\* whether _get_memory raises: _load_history_from_db catches every Exception
\* of its query (lines 98-112), and the rest of _get_memory touches no store
LoadHistoryRaises(mems, session_id, storeOk) == FALSE

\* _search_similar_chunks changed: the error of its query is caught and the
\* query is run again
SearchRaisesCaught(searchOk) == FALSE

\* whether _search_similar_chunks raises: nothing catches the error of its
\* execute_query (lines 252-256, 285-289)
SearchRaises(searchOk) == ~searchOk

\* lines 338-457, up to the await of the generation call; when the search
\* raises, the exception leaves answer_question
AnswerBegin(r, session_id, question, recent_document_id, query_embedding, searchOk, loadOk) ==
    LET prioritize_doc_id ==
            PrioritizeDocId(session_documents, session_id, recent_document_id)
        call == [NewCall("answer", session_id, question, recent_document_id)
                    EXCEPT !.prioritize_doc_id = prioritize_doc_id, !.searches = 1,
                           !.errors =
                               IF ~searchOk THEN {"_search_similar_chunks"}
                               ELSE IF session_id \notin DOMAIN memories /\ ~loadOk
                               THEN {"_load_history_from_db"} ELSE {}]
    IN  /\ requests[r] = NoCall
        /\ \A o \in Requests : requests[o] = NoCall => r <= o
        /\ CommandOf[question] = None
        /\ calls' = calls + 1
        /\ IF SearchRaises(searchOk) \/ LoadHistoryRaises(memories, session_id, loadOk)
           THEN /\ last' = [call EXCEPT !.raised = TRUE]
                /\ UNCHANGED <<memories, requests>>
           ELSE \E similar_chunks \in
                      SearchSimilarChunks(chunks, documents, query_embedding, TOP_K,
                                          prioritize_doc_id) :
                \E mems \in GetMemory(memories, chat_history, session_id, loadOk) :
                    LET built == AssembleContext(similar_chunks)
                        user_input == UserInput(built.context_parts, built.context, question)
                    IN  /\ memories' = mems
                        /\ requests' = [requests EXCEPT ![r] =
                              [call EXCEPT !.similar_chunks = similar_chunks,
                                           !.context_parts = built.context_parts,
                                           !.context = built.context,
                                           !.sources = built.sources,
                                           !.messages =
                                               BuildMessages(HistoryText(mems[session_id]),
                                                             user_input),
                                           !.generations = 1]]
                        /\ UNCHANGED last
        /\ UNCHANGED <<documents, chunks, chat_history, session_documents, returned>>

\* lines 487-489: the question and the answer are added to the buffer
UpdateMemory(memory, question, answer) ==
    AddAiMessage(AddUserMessage(memory, question), answer)

\* the saves changed: an error of the first save ends the saving
SaveExchangeStopsOnError(history, session_id, question, answer, saveUserOk, saveAiOk) ==
    IF saveUserOk
    THEN SaveMessageToDb(SaveMessageToDb(history, session_id, "user", question, TRUE),
                         session_id, "assistant", answer, saveAiOk)
    ELSE history

\* the saves changed: the answer is saved before the question
SaveExchangeAnswerFirst(history, session_id, question, answer, saveUserOk, saveAiOk) ==
    SaveMessageToDb(SaveMessageToDb(history, session_id, "assistant", answer, saveAiOk),
                    session_id, "user", question, saveUserOk)

\* the saves changed: the next turn number is read once for both rows
SaveExchangeReadsOnce(history, session_id, question, answer, saveUserOk, saveAiOk) ==
    LET next_turn == MaxTurn(history, session_id) + 1
        user == [session_id |-> session_id, turn |-> next_turn,
                 role |-> "user", content |-> question]
        ai == [session_id |-> session_id, turn |-> next_turn,
               role |-> "assistant", content |-> answer]
    IN  (history \o (IF saveUserOk THEN <<user>> ELSE <<>>))
            \o (IF saveAiOk THEN <<ai>> ELSE <<>>)

\* lines 491-493: the question and the answer are saved to the store
SaveExchange(history, session_id, question, answer, saveUserOk, saveAiOk) ==
    SaveMessageToDb(SaveMessageToDb(history, session_id, "user", question, saveUserOk),
                    session_id, "assistant", answer, saveAiOk)

\* the end of the call changed: the requests of the session that await their
\* generation get the new exchange into their messages
AnswerFinishRefreshesWaiting(r, outcome, saveUserOk, saveAiOk) ==
    LET call == requests[r]
        generated == GenerationAnswer(outcome)
        session_id == call.session_id
        memory == UpdateMemory(memories[session_id], call.question, generated.answer)
        Refreshed(o) ==
            IF o.path = "answer" /\ o.session_id = session_id /\ ~generated.raised
            THEN [o EXCEPT !.messages =
                     BuildMessages(HistoryText(memory), o.messages[Len(o.messages)].content)]
            ELSE o
    IN  /\ call.path = "answer"
        /\ requests' = [o \in Requests |-> IF o = r THEN NoCall ELSE Refreshed(requests[o])]
        /\ IF generated.raised
           THEN /\ last' = [call EXCEPT !.outcome = outcome, !.raised = TRUE]
                /\ UNCHANGED <<memories, chat_history>>
           ELSE /\ memories' = [memories EXCEPT ![session_id] = memory]
                /\ chat_history' =
                      SaveExchange(chat_history, session_id, call.question,
                                   generated.answer, saveUserOk, saveAiOk)
                /\ last' = [call EXCEPT
                      !.outcome = outcome,
                      !.saved = <<saveUserOk, saveAiOk>>,
                      !.response =
                          [answer |-> generated.answer,
                           sources |-> call.sources,
                           context_size |-> ContextSize(call.context_parts, call.context)]]
        /\ UNCHANGED <<documents, chunks, session_documents, calls, returned>>

\* lines 460-501, from the end of the generation call on
AnswerFinish(r, outcome, saveUserOk, saveAiOk) ==
    LET call == requests[r]
        generated == GenerationAnswer(outcome)
        session_id == call.session_id
    IN  /\ call.path = "answer"
        /\ requests' = [requests EXCEPT ![r] = NoCall]
        /\ IF generated.raised
           THEN /\ last' = [call EXCEPT !.outcome = outcome, !.raised = TRUE]
                /\ UNCHANGED <<memories, chat_history>>
           ELSE /\ memories' = [memories EXCEPT ![session_id] =
                      UpdateMemory(@, call.question, generated.answer)]
                /\ chat_history' =
                      SaveExchange(chat_history, session_id, call.question,
                                   generated.answer, saveUserOk, saveAiOk)
                /\ last' = [call EXCEPT
                      !.outcome = outcome,
                      !.saved = <<saveUserOk, saveAiOk>>,
                      !.response =
                          [answer |-> generated.answer,
                           sources |-> call.sources,
                           context_size |-> ContextSize(call.context_parts, call.context)]]
        /\ UNCHANGED <<documents, chunks, session_documents, calls, returned>>

\* the service process is restarted: memories, active documents and the
\* requests in flight are lost, the store is kept
Restart ==
    /\ memories' = <<>>
    /\ session_documents' = <<>>
    /\ requests' = [r \in Requests |-> NoCall]
    /\ UNCHANGED <<documents, chunks, chat_history, last, calls, returned>>

\* the recent_document_id arguments: none, or the id of a stored document
RecentDocumentIds == {None} \cup {d.id : d \in documents}

\* a file whose rows are all stored
Complete(file) == Len(file.chunks) + 1

\* the question that is no command, and the reply of the model
PlainOutcomes == {o \in GenerationOutcomes : o.raises = None /\ Strip(o.text) # <<>>}

\* The service with a store and a generation provider that do not fail:
\* uploads, commands and questions of two sessions, two requests at a time.
Next ==
    \/ /\ Cardinality(documents) < MaxDocs
       /\ \E s \in Sessions, f \in Files : ProcessDocument(s, f, Complete(f))
    \/ /\ calls < MaxCalls
       /\ \E s \in Sessions, q \in Questions, d \in RecentDocumentIds :
             AnswerForget(s, q, d)
    \/ /\ calls < MaxCalls
       /\ \E s \in Sessions, q \in Questions, d \in RecentDocumentIds :
             AnswerWhich(s, q, d, TRUE)
    \/ /\ calls < MaxCalls
       /\ \E r \in Requests, s \in Sessions, q \in Questions, d \in RecentDocumentIds :
             AnswerBegin(r, s, q, d, 0, TRUE, TRUE)
    \/ \E r \in Requests, o \in PlainOutcomes : AnswerFinish(r, o, TRUE, TRUE)
    \/ Restart

Spec == Init /\ [][Next]_vars

(***************************************************************************)
(* One session with a store and a generation provider that can fail.       *)
(***************************************************************************)
\* answer_question calls per behaviour of SpecFaults
MaxFaultyCalls == 1

PlainQuestion == CHOOSE q \in Questions : CommandOf[q] = None

\* the rows an earlier process stored for the session: none, or one exchange
EarlierHistories ==
    {<<>>,
     <<[session_id |-> "s1", turn |-> 1, role |-> "user", content |-> PlainQuestion],
       [session_id |-> "s1", turn |-> 2, role |-> "assistant", content |-> <<"o", "k">>]>>}

InitFaults ==
    /\ documents = {}
    /\ chunks = {}
    /\ chat_history \in EarlierHistories
    /\ memories = <<>>
    /\ session_documents = <<>>
    /\ requests = [r \in Requests |-> NoCall]
    /\ last = NoCall
    /\ calls = 0
    /\ returned = NoReturn

NextFaults ==
    \/ /\ documents = {}
       /\ \E f \in Files : ProcessDocument("s1", f, Complete(f))
    \/ /\ calls < MaxFaultyCalls
       /\ \E r \in Requests, q \in Questions, e \in QueryEmbeddings,
             searchOk \in BOOLEAN, loadOk \in BOOLEAN :
             AnswerBegin(r, "s1", q, None, e, searchOk, loadOk)
    \/ \E r \in Requests, o \in GenerationOutcomes, saveUserOk \in BOOLEAN,
          saveAiOk \in BOOLEAN :
          AnswerFinish(r, o, saveUserOk, saveAiOk)

SpecFaults == InitFaults /\ [][NextFaults]_vars

(***************************************************************************)
(* _search_similar_chunks called directly, over drawn stores.              *)
(***************************************************************************)
\* chunks per document in the drawn stores
MaxChunks == 2

\* the embeddings of a document's chunks, in chunk_index order
ChunkLists == UNION {[1..n -> Embeddings] : n \in 0..MaxChunks}

DrawnDocument(n) ==
    [id |-> DocIdNames[n], source |-> UploadSource \o <<"f", <<"1", "2">>[n]>>,
     title |-> <<"f", <<"1", "2">>[n]>>, created_at |-> CreatedAt(n)]

DrawnChunks(n, list) ==
    {[document_id |-> DocIdNames[n], chunk_index |-> i - 1,
      content |-> <<"<400>">>, embedding |-> list[i]] : i \in 1..Len(list)}

\* a store of up to two documents, each with its chunks (a document row may
\* have no chunk; a chunk always has its document row)
InitRetrieval ==
    /\ \E has1 \in BOOLEAN, has2 \in BOOLEAN, list1 \in ChunkLists, list2 \in ChunkLists :
          /\ has1 \/ list1 = <<>>
          /\ has2 \/ list2 = <<>>
          /\ documents = {DrawnDocument(n) : n \in {m \in {1, 2} : IF m = 1 THEN has1 ELSE has2}}
          /\ chunks = DrawnChunks(1, list1) \cup DrawnChunks(2, list2)
    /\ chat_history = <<>>
    /\ memories = <<>>
    /\ session_documents = <<>>
    /\ requests = [r \in Requests |-> NoCall]
    /\ last = NoCall
    /\ calls = 0
    /\ returned = NoReturn

\* the top_k arguments tried
TopKs == {1, 2, TOP_K}

\* the prioritize_document_id arguments tried; "d3" is the id of no document
PriorityIds == {None, "d1", "d2", "d3"}

\* results = self._search_similar_chunks(query, top_k, prioritize_document_id)
SearchCall(query_embedding, top_k, prioritize_document_id) ==
    /\ returned = NoReturn
    /\ \E results \in SearchSimilarChunks(chunks, documents, query_embedding, top_k,
                                          prioritize_document_id) :
          returned' = [function |-> "_search_similar_chunks",
                       query_embedding |-> query_embedding, top_k |-> top_k,
                       prioritize_document_id |-> prioritize_document_id,
                       results |-> results]
    /\ UNCHANGED <<documents, chunks, chat_history, memories, session_documents, requests,
                   last, calls>>

NextRetrieval ==
    returned = NoReturn /\ \E q \in Embeddings, k \in TopKs, p \in PriorityIds : SearchCall(q, k, p)

SpecRetrieval == InitRetrieval /\ [][NextRetrieval]_vars

(***************************************************************************)
(* The context assembly of answer_question (lines 352-389 and 497-501),    *)
(* over drawn result lists.                                                *)
(***************************************************************************)
\* the rows a search can return: a chunk of 400, 500, 1500 or 2500 characters
\* of document "d1" at similarity 1.00, 0.30 or 0.29, and a chunk of 400
\* characters of document "d2" at similarity 1.00
RowPool ==
    {[content |-> <<c>>, title |-> <<"f", "1">>, source |-> UploadSource \o <<"f", "1">>,
      document_id |-> "d1", similarity |-> s] :
        c \in {"<400>", "<500>", "<1500>", "<2500>"}, s \in {100, 30, 29}}
    \cup {[content |-> <<"<400>">>, title |-> <<"f", "2">>,
           source |-> UploadSource \o <<"f", "2">>, document_id |-> "d2",
           similarity |-> 100]}

\* a list a search can return: most similar first
IsRanked(rows) ==
    \A i \in 1..(Len(rows) - 1) : rows[i].similarity >= rows[i + 1].similarity

ContextCall(similar_chunks) ==
    LET built == AssembleContext(similar_chunks)
    IN  /\ returned = NoReturn
        /\ returned' = [function |-> "context",
                        similar_chunks |-> similar_chunks,
                        context_parts |-> built.context_parts,
                        sources |-> built.sources,
                        context |-> built.context,
                        context_size |-> ContextSize(built.context_parts, built.context)]
        /\ UNCHANGED <<documents, chunks, chat_history, memories, session_documents,
                       requests, last, calls>>

\* a search with top_k = TOP_K returns at most TOP_K rows
NextContext ==
    /\ returned = NoReturn
    /\ \E n \in 0..TOP_K : \E rows \in [1..n -> RowPool] : IsRanked(rows) /\ ContextCall(rows)

SpecContext == Init /\ [][NextContext]_vars

(***************************************************************************)
(* The history of a session rendered and parsed back (lines 391-396 and    *)
(* 435-449), over drawn turns.                                             *)
(***************************************************************************)
\* turns appended to the buffer
MaxTurns == 2

\* the contents appended: "", "a", " a", "a ", "a b", "a\nb"
TurnContents ==
    {<<>>, <<"a">>, <<" ", "a">>, <<"a", " ">>, <<"a", " ", "b">>, <<"a", "\n", "b">>}

\* the session has an empty buffer
InitHistory ==
    /\ documents = {}
    /\ chunks = {}
    /\ chat_history = <<>>
    /\ memories = [s \in {"s1"} |-> <<>>]
    /\ session_documents = <<>>
    /\ requests = [r \in Requests |-> NoCall]
    /\ last = NoCall
    /\ calls = 0
    /\ returned = NoReturn

\* memory.chat_memory.add_user_message(content) or add_ai_message(content)
AppendTurn(type, content) ==
    /\ Len(memories["s1"]) < MaxTurns
    /\ memories' = [memories EXCEPT !["s1"] =
          IF type = "human" THEN AddUserMessage(@, content) ELSE AddAiMessage(@, content)]
    /\ UNCHANGED <<documents, chunks, chat_history, session_documents, requests, last,
                   calls, returned>>

\* history_text = memory.load_memory_variables({})["chat_history"], parsed
\* into the history messages of the request, and the request built for the
\* input "Oi"
ReplayCall ==
    /\ returned' = [function |-> "history",
                    memory |-> memories["s1"],
                    history_text |-> HistoryText(memories["s1"]),
                    messages |-> ParseHistory(HistoryText(memories["s1"])),
                    user_input |-> PlainQuestion,
                    request |-> BuildMessages(HistoryText(memories["s1"]), PlainQuestion)]
    /\ UNCHANGED <<documents, chunks, chat_history, memories, session_documents, requests,
                   last, calls>>

NextHistory ==
    \/ \E type \in {"human", "ai"}, content \in TurnContents : AppendTurn(type, content)
    \/ ReplayCall

SpecHistory == InitHistory /\ [][NextHistory]_vars

(***************************************************************************)
(* Properties of the command paths (Spec).                                 *)
(***************************************************************************)
\* the (role, content) pairs of a session's rows of chat_history, oldest first
SessionTurns(history, session_id) ==
    LET OfSession(row) == row.session_id = session_id
        rows == SelectSeq(history, OfSession)
    IN  [i \in 1..Len(rows) |-> [role |-> rows[i].role, content |-> rows[i].content]]

\* the buffer of a session, empty when it has none
Buffer(mems, session_id) == IF session_id \in DOMAIN mems THEN mems[session_id] ELSE <<>>

\* C1: a call whose lower-cased, trimmed question contains a forget phrase,
\* made for a session that has an active document, leaves the session without
\* one, returns the fixed confirmation with no sources and context_size 0, and
\* leaves the session's rows of chat_history as they were.
ForgetClearsActiveDocument ==
    [][(/\ last' # last
        /\ last'.session_id \in DOMAIN session_documents
        /\ CommandOf[last'.question] = "forget")
       => /\ ~last'.raised
          /\ last'.session_id \notin DOMAIN session_documents'
          /\ GetSessionDocument(session_documents', last'.session_id) = None
          /\ last'.response.answer = FORGET_ANSWER
          /\ last'.response.sources = <<>>
          /\ last'.response.context_size = 0
          /\ SessionTurns(chat_history', last'.session_id)
                = SessionTurns(chat_history, last'.session_id)]_vars

\* a forget command has returned for a session that had an active document
\* and rows in chat_history
ForgetAfterUploadAndAnswer ==
    /\ last.path = "forget"
    /\ last.active_doc_id # None
    /\ last.session_id \notin DOMAIN session_documents
    /\ SessionRows(chat_history, last.session_id) # {}

\* C2: a call whose question is a forget or a which-document command makes no
\* search and no generation call, and leaves every buffer and chat_history
\* as they were (no buffer created or extended, no row inserted).
CommandsTouchNoHistory ==
    [][(/\ last' # last
        /\ CommandOf[last'.question] \in {"forget", "which"})
       => /\ last'.searches = 0
          /\ last'.similar_chunks = <<>>
          /\ last'.generations = 0
          /\ last'.messages = <<>>
          /\ DOMAIN memories' = DOMAIN memories
          /\ memories' = memories
          /\ chat_history' = chat_history
          /\ requests' = requests]_vars

\* a which-document command has returned for a session that has rows in
\* chat_history and no buffer
WhichWithoutBuffer ==
    /\ last.path = "which"
    /\ last.session_id \notin DOMAIN memories
    /\ SessionRows(chat_history, last.session_id) # {}

(***************************************************************************)
(* Properties of the generation call and of the memory update              *)
(* (SpecFaults).                                                           *)
(***************************************************************************)
\* the two messages a call adds to the buffer
Exchange(question, answer) ==
    <<[type |-> "human", content |-> question], [type |-> "ai", content |-> answer]>>

\* the rows a call adds to chat_history, given which INSERTs the store accepted
SavedTurns(question, answer, saved) ==
    (IF saved[1] THEN <<[role |-> "user", content |-> question]>> ELSE <<>>)
        \o (IF saved[2] THEN <<[role |-> "assistant", content |-> answer]>> ELSE <<>>)

\* C3: whatever the generation call raises (a timeout, a connection failure,
\* an HTTP error status, a malformed response), answer_question returns with
\* a non-empty answer, and appends the question and that answer to the buffer
\* and, as far as the store accepts them, to chat_history.
GenerationFailureIsAnswered ==
    [][(last' # last /\ last'.outcome.raises # None)
       => /\ ~last'.raised
          /\ last'.response.answer # <<>>
          /\ Buffer(memories', last'.session_id)
                = Buffer(memories, last'.session_id)
                    \o Exchange(last'.question, last'.response.answer)
          /\ SessionTurns(chat_history', last'.session_id)
                = SessionTurns(chat_history, last'.session_id)
                    \o SavedTurns(last'.question, last'.response.answer, last'.saved)]_vars

\* a call whose generation got an HTTP error status has returned, after an
\* earlier exchange, and both rows were stored
AnsweredAfterHttpError ==
    /\ last.outcome.raises = "HTTPStatusError"
    /\ ~last.raised
    /\ last.saved = <<TRUE, TRUE>>
    /\ Len(chat_history) = 4
    /\ Len(Buffer(memories, last.session_id)) = 4

\* C4: when the generation call times out, with any of the client's timeout
\* exceptions, answer_question returns and the answer is the one fixed apology.
TimeoutGetsTheApology ==
    (last.path = "answer" /\ IsInstance(last.outcome.raises, "TimeoutException"))
        => /\ ~last.raised
           /\ last.response.answer = READ_TIMEOUT_ANSWER

\* C10 as stated: every call that is not a command appends the question and
\* then the answer to the buffer and, when the store accepts both INSERTs, to
\* chat_history.
EveryCallAppendsTwoTurns ==
    [][(last' # last /\ last'.path = "answer")
       => /\ Buffer(memories', last'.session_id)
                = Buffer(memories, last'.session_id)
                    \o Exchange(last'.question, last'.response.answer)
          /\ last'.saved = <<TRUE, TRUE>>
                => SessionTurns(chat_history', last'.session_id)
                      = SessionTurns(chat_history, last'.session_id)
                          \o SavedTurns(last'.question, last'.response.answer,
                                        <<TRUE, TRUE>>)]_vars

\* C10, amended: every call that is not a command and that returns appends
\* exactly two messages to the buffer, the question as human and then the
\* answer as ai, and, when the store accepts both INSERTs, exactly two rows
\* to the session's chat_history, user and then assistant; the buffers and
\* rows of other sessions stay as they were.
ReturningCallAppendsTwoTurns ==
    [][(last' # last /\ last'.path = "answer" /\ ~last'.raised)
       => /\ Buffer(memories', last'.session_id)
                = Buffer(memories, last'.session_id)
                    \o Exchange(last'.question, last'.response.answer)
          /\ \A s \in DOMAIN memories' \ {last'.session_id} :
                s \in DOMAIN memories /\ memories'[s] = memories[s]
          /\ last'.saved = <<TRUE, TRUE>>
                => /\ SessionTurns(chat_history', last'.session_id)
                         = SessionTurns(chat_history, last'.session_id)
                             \o SavedTurns(last'.question, last'.response.answer,
                                           <<TRUE, TRUE>>)
                   /\ Len(chat_history') = Len(chat_history) + 2]_vars

\* a call with a reply of the model has returned, after an earlier exchange,
\* and both rows were stored
AnsweredAndStored ==
    /\ last.path = "answer"
    /\ ~last.raised
    /\ last.outcome.raises = None
    /\ last.saved = <<TRUE, TRUE>>
    /\ Len(Buffer(memories, last.session_id)) = 4
    /\ SessionTurns(chat_history, last.session_id)[3]
          = [role |-> "user", content |-> last.question]
    /\ SessionTurns(chat_history, last.session_id)[4]
          = [role |-> "assistant", content |-> last.response.answer]

(***************************************************************************)
(* Properties of _search_similar_chunks (SpecRetrieval).                   *)
(***************************************************************************)
Min(a, b) == IF a <= b THEN a ELSE b

\* the chunks of a document
ChunksOf(document_id) == {c \in chunks : c.document_id = document_id}

\* C5: called with a priority document that has at least one chunk,
\* _search_similar_chunks returns chunks of that document only, at least one
\* and at most top_k, whatever their similarities.
PriorityDocumentOnly ==
    (/\ returned.function = "_search_similar_chunks"
     /\ returned.prioritize_document_id # None
     /\ ChunksOf(returned.prioritize_document_id) # {})
        => /\ \A i \in 1..Len(returned.results) :
                 returned.results[i].document_id = returned.prioritize_document_id
           /\ Len(returned.results) >= 1
           /\ Len(returned.results) <= returned.top_k
           /\ Len(returned.results)
                 = Min(returned.top_k,
                       Cardinality(ChunksOf(returned.prioritize_document_id)))

\* a search returned only chunks of the priority document, all at similarity
\* 0.05, while another document has a chunk at similarity 1.00
PriorityBeatsSimilarity ==
    /\ returned.function = "_search_similar_chunks"
    /\ returned.prioritize_document_id # None
    /\ returned.results # <<>>
    /\ \A i \in 1..Len(returned.results) :
          /\ returned.results[i].document_id = returned.prioritize_document_id
          /\ returned.results[i].similarity = 5
    /\ \E c \in chunks :
          /\ c.document_id # returned.prioritize_document_id
          /\ Similarity(returned.query_embedding, c.embedding) = 100

RECURSIVE TotalChars(_)
\* the sum of len(part) over a list of texts
TotalChars(parts) ==
    IF parts = <<>> THEN 0 ELSE PyLen(Head(parts)) + TotalChars(Tail(parts))

\* C7: the context is never longer than MAX_CONTEXT_CHARS (its length is the
\* context_size returned), and it is made of whole chunks of the result list.
ContextWithinBudget ==
    returned.function = "context"
        => /\ returned.context_size <= MAX_CONTEXT_CHARS
           /\ returned.context_parts # <<>>
                 => PyLen(returned.context) <= MAX_CONTEXT_CHARS
           /\ \A i \in 1..Len(returned.context_parts) :
                 \E j \in 1..Len(returned.similar_chunks) :
                    returned.similar_chunks[j].content = returned.context_parts[i]

HistoryRoundTrip ==
    (/\ returned.function = "history"
     /\ \A i \in 1..Len(returned.memory) : ~Contains(returned.memory[i].content, <<"\n">>))
        => returned.messages
              = [i \in 1..Len(returned.memory) |->
                    [role |-> IF returned.memory[i].type = "human" THEN "user"
                              ELSE "assistant",
                     content |-> returned.memory[i].content]]

(***************************************************************************)
(* _save_message_to_db run by two service processes that share the store.  *)
(* Each execute_query is a transaction of its own (database.py), so the    *)
(* SELECT of the maximum turn and the INSERT are two steps; inside one     *)
(* process they run without a suspension point in between.  In             *)
(* SpecAppend, requests holds the call each process is in and calls counts *)
(* the calls made.                                                         *)
(***************************************************************************)
\* _save_message_to_db calls per behaviour
MaxAppends == 3

\* the service processes
Writers == {1, 2}

\* lines 76-83: the SELECT, and next_turn computed from its result
SaveRead(w, session_id, role, content) ==
    /\ requests[w] = NoCall
    /\ requests' = [requests EXCEPT ![w] =
          [path |-> "_save_message_to_db", session_id |-> session_id, role |-> role,
           content |-> content, next_turn |-> MaxTurn(chat_history, session_id) + 1]]
    /\ calls' = calls + 1
    /\ UNCHANGED <<documents, chunks, chat_history, memories, session_documents, last,
                   returned>>

\* the turn of the INSERT changed: computed by the INSERT itself
InsertedTurnFresh(save, history) == MaxTurn(history, save.session_id) + 1

\* the turn the INSERT writes: next_turn, as computed at line 83
InsertedTurn(save, history) == save.next_turn

\* lines 85-90: the INSERT
SaveInsert(w) ==
    /\ requests[w] # NoCall
    /\ chat_history' =
          Append(chat_history,
                 [session_id |-> requests[w].session_id,
                  turn |-> InsertedTurn(requests[w], chat_history),
                  role |-> requests[w].role, content |-> requests[w].content])
    /\ requests' = [requests EXCEPT ![w] = NoCall]
    /\ UNCHANGED <<documents, chunks, memories, session_documents, last, calls, returned>>

NextAppend ==
    \/ /\ calls < MaxAppends
       /\ \E w \in Writers, s \in Sessions, role \in {"user", "assistant"} :
             SaveRead(w, s, role, <<"m">>)
    \/ \E w \in Writers : SaveInsert(w)

SpecAppend == Init /\ [][NextAppend]_vars

(***************************************************************************)
(* answer_question of one session over drawn stores: another document may  *)
(* be stored already, the session may have an active document, and the    *)
(* session uploads files.                                                  *)
(***************************************************************************)
\* answer_question calls per behaviour of SpecDrawn
MaxDrawnCalls == 1

\* uploads per behaviour of SpecDrawn
MaxUploads == 1

\* the embeddings of the chunks of the document stored already
StoredChunkLists == {<<>>, <<0>>, <<0, 3>>}

\* the active document of session "s1": none, the stored document, or "d4",
\* a document whose row is no longer in the store
DrawnPins == {None, "d1", "d4"}

InitDrawn ==
    /\ \E has1 \in BOOLEAN, list1 \in StoredChunkLists, pin \in DrawnPins :
          /\ has1 \/ (list1 = <<>> /\ pin # "d1")
          /\ documents = IF has1 THEN {DrawnDocument(1)} ELSE {}
          /\ chunks = DrawnChunks(1, list1)
          /\ session_documents = IF pin = None THEN <<>> ELSE [s \in {"s1"} |-> pin]
    /\ chat_history = <<>>
    /\ memories = <<>>
    /\ requests = [r \in Requests |-> NoCall]
    /\ last = NoCall
    /\ calls = 0
    /\ returned = NoReturn

\* the documents made by process_document
Uploaded == {d \in documents : \E f \in Files : d.title = f.filename}

\* a reply, a blank reply, or a timeout
DrawnOutcomes == {o \in GenerationOutcomes : o.raises \in {None, "ReadTimeout"}}

NextDrawn ==
    \/ /\ Cardinality(Uploaded) < MaxUploads
       /\ \E f \in Files : ProcessDocument("s1", f, Complete(f))
    \/ /\ calls < MaxDrawnCalls
       /\ \E r \in Requests, q \in Questions, d \in RecentDocumentIds, e \in QueryEmbeddings :
             AnswerBegin(r, "s1", q, d, e, TRUE, TRUE)
    \/ \E r \in Requests, o \in DrawnOutcomes : AnswerFinish(r, o, TRUE, TRUE)
    \/ /\ calls < MaxDrawnCalls
       /\ \E q \in Questions, d \in RecentDocumentIds, storeOk \in BOOLEAN :
             AnswerWhich("s1", q, d, storeOk)

SpecDrawn == InitDrawn /\ [][NextDrawn]_vars

(***************************************************************************)
(* answer_question of one session whose history an earlier process stored: *)
(* the buffer is loaded, extended, and lost at a restart.                  *)
(***************************************************************************)
\* rows of the session stored before the behaviour starts
MaxStoredTurns == 12

\* answer_question calls per behaviour of SpecReload
MaxReloadCalls == 2

\* the content of the turn-th row
StoredContent(turn) ==
    <<"m", <<"1", "2", "3", "4", "5", "6", "7", "8", "9", "a", "b", "c", "d", "e">>[turn]>>

\* the row an earlier process stored as the turn-th of a session: questions
\* at odd turns, answers at even turns
StoredRow(session_id, turn) ==
    [session_id |-> session_id, turn |-> turn,
     role |-> IF turn % 2 = 1 THEN "user" ELSE "assistant",
     content |-> StoredContent(turn)]

\* n rows of "s1", alone or each after a row of "s2"
StoredHistory(n, other) ==
    IF other
    THEN [i \in 1..(2 * n) |->
            IF i % 2 = 1 THEN StoredRow("s2", (i + 1) \div 2) ELSE StoredRow("s1", i \div 2)]
    ELSE [i \in 1..n |-> StoredRow("s1", i)]

InitReload ==
    /\ documents = {}
    /\ chunks = {}
    /\ \E n \in 0..MaxStoredTurns, other \in BOOLEAN : chat_history = StoredHistory(n, other)
    /\ memories = <<>>
    /\ session_documents = <<>>
    /\ requests = [r \in Requests |-> NoCall]
    /\ last = NoCall
    /\ calls = 0
    /\ returned = NoReturn

NextReload ==
    \/ /\ calls < MaxReloadCalls
       /\ \E r \in Requests, q \in Questions : AnswerBegin(r, "s1", q, None, 0, TRUE, TRUE)
    \/ \E r \in Requests, o \in PlainOutcomes : AnswerFinish(r, o, TRUE, TRUE)
    \/ Restart

SpecReload == InitReload /\ [][NextReload]_vars

(***************************************************************************)
(* The active documents of the sessions, through _set_session_document,   *)
(* _get_session_document and _clear_session_document called one after the  *)
(* other.  In SpecPins, returned holds the calls made so far (log), each   *)
(* with its arguments, what it returned, whether it raised, and            *)
(* session_documents before and after it.                                  *)
(***************************************************************************)
\* helper calls per behaviour of SpecPins
MaxPinCalls == 4

\* the document ids given to _set_session_document
PinIds == {"d1", "d2"}

InitPins ==
    /\ documents = {}
    /\ chunks = {}
    /\ chat_history = <<>>
    /\ memories = <<>>
    /\ session_documents = <<>>
    /\ requests = [r \in Requests |-> NoCall]
    /\ last = NoCall
    /\ calls = 0
    /\ returned = [function |-> "session_documents", log |-> <<>>]

\* one helper call: session_documents changes, and the call is logged
PinCall(function, session_id, document_id, value, raised, after) ==
    /\ session_documents' = after
    /\ returned' = [returned EXCEPT !.log =
          Append(@, [function |-> function, session_id |-> session_id,
                     document_id |-> document_id, value |-> value, raised |-> raised,
                     before |-> session_documents, after |-> after])]
    /\ calls' = calls + 1
    /\ UNCHANGED <<documents, chunks, chat_history, memories, requests, last>>

\* lines 114-119
SetCall(session_id, document_id) ==
    PinCall("_set_session_document", session_id, document_id, None, FALSE,
            SetSessionDocument(session_documents, session_id, document_id))

\* lines 121-128
GetCall(session_id) ==
    PinCall("_get_session_document", session_id, None,
            GetSessionDocument(session_documents, session_id), FALSE, session_documents)

\* _clear_session_document changed: the entry is deleted without the test of
\* line 134, and del raises KeyError for a session without an entry
ClearRaisesKeyError(pins, session_id) == session_id \notin DOMAIN pins

\* whether _clear_session_document raises: del runs for a key that is in the
\* dict only (line 134)
ClearRaises(pins, session_id) == FALSE

\* lines 130-136
ClearCall(session_id) ==
    IF ClearRaises(session_documents, session_id)
    THEN PinCall("_clear_session_document", session_id, None, None, TRUE, session_documents)
    ELSE PinCall("_clear_session_document", session_id, None, None, FALSE,
                 ClearSessionDocument(session_documents, session_id))

NextPins ==
    \/ calls < MaxPinCalls /\ \E s \in Sessions, d \in PinIds : SetCall(s, d)
    \/ calls < MaxPinCalls /\ \E s \in Sessions : GetCall(s)
    \/ calls < MaxPinCalls /\ \E s \in Sessions : ClearCall(s)

SpecPins == InitPins /\ [][NextPins]_vars

(***************************************************************************)
(* Two sessions with a store that can fail: an upload may stop at any of   *)
(* its INSERTs, a search and the query of _get_document_info may raise.    *)
(* Session "s2" may have uploaded a file and asked a question before.      *)
(***************************************************************************)
\* process_document and answer_question calls per behaviour of SpecSessions
MaxSessionSteps == 2

\* the file session "s2" uploaded before
WarmFile == CHOOSE f \in Files : Len(f.chunks) = 3

\* the store, the active documents, the buffers and the turns after "s2"
\* uploaded WarmFile, asked PlainQuestion and got the answer "ok"
WarmState ==
    [documents |-> {[id |-> DocIdNames[1], source |-> UploadSource \o WarmFile.filename,
                     title |-> WarmFile.filename, created_at |-> CreatedAt(1)]},
     chunks |-> {[document_id |-> DocIdNames[1], chunk_index |-> idx - 1,
                  content |-> WarmFile.chunks[idx].content,
                  embedding |-> WarmFile.chunks[idx].embedding] : idx \in 1..3},
     session_documents |-> SetSessionDocument(<<>>, "s2", DocIdNames[1]),
     memories |-> [s \in {"s2"} |-> UpdateMemory(<<>>, PlainQuestion, <<"o", "k">>)],
     chat_history |-> SaveExchange(<<>>, "s2", PlainQuestion, <<"o", "k">>, TRUE, TRUE)]

InitSessions ==
    /\ \E warm \in BOOLEAN :
          /\ documents = IF warm THEN WarmState.documents ELSE {}
          /\ chunks = IF warm THEN WarmState.chunks ELSE {}
          /\ session_documents = IF warm THEN WarmState.session_documents ELSE <<>>
          /\ memories = IF warm THEN WarmState.memories ELSE <<>>
          /\ chat_history = IF warm THEN WarmState.chat_history ELSE <<>>
    /\ requests = [r \in Requests |-> NoCall]
    /\ last = NoCall
    /\ calls = 0
    /\ returned = NoReturn

\* the documents process_document made in this behaviour
SessionUploads == documents \ WarmState.documents

\* the INSERTs of an upload that succeed: all, or the document row and the
\* first chunk row only
StoredRows(file) == {Complete(file)} \cup {n \in {2} : n < Complete(file)}

\* the calls made so far in a behaviour of SpecSessions
SessionSteps == calls + Cardinality(SessionUploads)

NextSessions ==
    \/ /\ SessionSteps < MaxSessionSteps
       /\ \E s \in Sessions \cup {None}, f \in Files :
             \E stored \in StoredRows(f) : ProcessDocument(s, f, stored)
    \/ /\ SessionSteps < MaxSessionSteps
       /\ \E s \in Sessions, q \in Questions : AnswerForget(s, q, None)
    \/ /\ SessionSteps < MaxSessionSteps
       /\ \E s \in Sessions, q \in Questions, storeOk \in BOOLEAN :
             AnswerWhich(s, q, None, storeOk)
    \/ /\ SessionSteps < MaxSessionSteps
       /\ \E r \in Requests, s \in Sessions, q \in Questions, d \in RecentDocumentIds,
             searchOk \in BOOLEAN :
             AnswerBegin(r, s, q, d, 0, searchOk, TRUE)
    \/ \E r \in Requests, o \in PlainOutcomes : AnswerFinish(r, o, TRUE, TRUE)

SpecSessions == InitSessions /\ [][NextSessions]_vars

(***************************************************************************)
(* The context and the current input of answer_question (lines 352-389 and *)
(* 398-455) for a session without history, over drawn result lists whose   *)
(* chunks may hold any text, the two fixed sentences included.             *)
(***************************************************************************)
\* the rows a search can return: chunks of 400 and 2500 characters, and
\* chunks whose text is one of the two fixed sentences
PromptPool ==
    {[content |-> c, title |-> <<"f", "1">>, source |-> UploadSource \o <<"f", "1">>,
      document_id |-> "d1", similarity |-> s] :
        c \in {<<"<400>">>, <<"<2500>">>, NO_DOCUMENT_CONTEXT, NO_RELEVANT_CONTEXT},
        s \in {100, 29}}

PromptCall(similar_chunks, question) ==
    LET built == AssembleContext(similar_chunks)
        user_input == UserInput(built.context_parts, built.context, question)
    IN  /\ returned = NoReturn
        /\ returned' = [function |-> "prompt",
                        question |-> question,
                        similar_chunks |-> similar_chunks,
                        context_parts |-> built.context_parts,
                        context |-> built.context,
                        messages |-> BuildMessages(<<>>, user_input)]
        /\ UNCHANGED <<documents, chunks, chat_history, memories, session_documents,
                       requests, last, calls>>

\* rows per result list in SpecPrompt
MaxPromptRows == 3

NextPrompt ==
    /\ returned = NoReturn
    /\ \E n \in 0..MaxPromptRows : \E rows \in [1..n -> PromptPool] :
          IsRanked(rows) /\ PromptCall(rows, PlainQuestion)

SpecPrompt == Init /\ [][NextPrompt]_vars

(***************************************************************************)
(* Questions of session "s1" over a store of two documents: "d1", which    *)
(* may be the active document of the session, and "d2".                    *)
(***************************************************************************)
\* answer_question calls per behaviour of SpecScoped
MaxScopedCalls == 2

\* the embeddings of the chunks of "d1" and of "d2"
ScopedChunkLists == {<<>>, <<0>>, <<3>>, <<0, 3>>}

OtherChunkLists == {<<>>, <<1>>, <<2>>}

InitScoped ==
    /\ \E list1 \in ScopedChunkLists, list2 \in OtherChunkLists, pinned \in BOOLEAN :
          /\ documents = {DrawnDocument(1), DrawnDocument(2)}
          /\ chunks = DrawnChunks(1, list1) \cup DrawnChunks(2, list2)
          /\ session_documents = IF pinned THEN [s \in {"s1"} |-> DocIdNames[1]] ELSE <<>>
    /\ chat_history = <<>>
    /\ memories = <<>>
    /\ requests = [r \in Requests |-> NoCall]
    /\ last = NoCall
    /\ calls = 0
    /\ returned = NoReturn

NextScoped ==
    \/ /\ calls < MaxScopedCalls
       /\ \E r \in Requests, e \in QueryEmbeddings :
             AnswerBegin(r, "s1", PlainQuestion, None, e, TRUE, TRUE)
    \/ \E r \in Requests, o \in PlainOutcomes : AnswerFinish(r, o, TRUE, TRUE)

SpecScoped == InitScoped /\ [][NextScoped]_vars

(***************************************************************************)
(* One process answering questions of "s1", whose earlier exchanges are in *)
(* the store, while the read of the history can fail.                      *)
(***************************************************************************)
\* answer_question calls per behaviour of SpecSeeded
MaxSeededCalls == 3

\* rows of "s1" in the store when the process starts
MaxSeededTurns == 4

InitSeeded ==
    /\ documents = {}
    /\ chunks = {}
    /\ \E n \in 0..MaxSeededTurns : chat_history = StoredHistory(n, FALSE)
    /\ memories = <<>>
    /\ session_documents = <<>>
    /\ requests = [r \in Requests |-> NoCall]
    /\ last = NoCall
    /\ calls = 0
    /\ returned = NoReturn

NextSeeded ==
    \/ /\ calls < MaxSeededCalls
       /\ \E r \in Requests, loadOk \in BOOLEAN :
             AnswerBegin(r, "s1", PlainQuestion, None, 0, TRUE, loadOk)
    \/ \E r \in Requests, o \in PlainOutcomes : AnswerFinish(r, o, TRUE, TRUE)

SpecSeeded == InitSeeded /\ [][NextSeeded]_vars

(***************************************************************************)
(* Uploads and questions of two sessions, among them a question with a     *)
(* forget phrase and a which-document phrase; an upload with a question is *)
(* the upload followed by the call, made with the id of the new document.  *)
(***************************************************************************)
\* answer_question calls and uploads per behaviour of SpecCommands
MaxCommandSteps == 3

NextCommands ==
    \/ /\ calls + Cardinality(documents) < MaxCommandSteps
       /\ \E s \in Sessions, f \in Files : ProcessDocument(s, f, Complete(f))
    \/ /\ calls + Cardinality(documents) < MaxCommandSteps
       /\ \E s \in Sessions, q \in AllQuestions, d \in RecentDocumentIds :
             AnswerForget(s, q, d)
    \/ /\ calls + Cardinality(documents) < MaxCommandSteps
       /\ \E s \in Sessions, q \in AllQuestions, d \in RecentDocumentIds :
             AnswerWhich(s, q, d, TRUE)
    \/ /\ calls + Cardinality(documents) < MaxCommandSteps
       /\ \E r \in Requests, s \in Sessions, q \in AllQuestions, d \in RecentDocumentIds :
             AnswerBegin(r, s, q, d, 0, TRUE, TRUE)
    \/ \E r \in Requests, o \in PlainOutcomes : AnswerFinish(r, o, TRUE, TRUE)

SpecCommands == Init /\ [][NextCommands]_vars

(***************************************************************************)
(* Properties of the turn numbers of chat_history (Spec, SpecAppend).      *)
(***************************************************************************)
\* C11: with one service process writing and a store that accepts every
\* INSERT, the k-th row appended for a session carries turn k (the maximum
\* turn of the session plus one, 1 for the first), whatever rows other
\* sessions have: the turns of a session are 1..n in append order.
TurnsCountUpPerSession ==
    \A s \in Sessions :
        \A i \in SessionRows(chat_history, s) :
            chat_history[i].turn
                = Cardinality({j \in SessionRows(chat_history, s) : j <= i})

\* the two sessions have each appended an exchange, one after the other
TwoSessionsAppended ==
    /\ Len(chat_history) = 4
    /\ chat_history[1].session_id # chat_history[3].session_id
    /\ chat_history[3].turn = 1
    /\ chat_history[4].turn = 2

\* two rows of one session carry the same turn
DuplicateTurn(history) ==
    \E i \in 1..Len(history), j \in 1..Len(history) :
        /\ i < j
        /\ history[i].session_id = history[j].session_id
        /\ history[i].turn = history[j].turn

\* C12: the INSERT writes the turn computed from the earlier SELECT, so when
\* another append to the session was inserted between the SELECT and the
\* INSERT of a call, two rows of the session carry the same turn.
StaleReadRepeatsTurn ==
    [][\A w \in Writers :
          (/\ requests[w] # NoCall
           /\ requests'[w] = NoCall
           /\ Len(chat_history') = Len(chat_history) + 1
           /\ MaxTurn(chat_history, requests[w].session_id) >= requests[w].next_turn)
          => /\ chat_history'[Len(chat_history')].turn = requests[w].next_turn
             /\ DuplicateTurn(chat_history')]_vars

\* both processes read the maximum turn of a session before either
\* inserted: the two rows carry turn 1
TwoRowsWithTurnOne ==
    /\ Len(chat_history) = 2
    /\ chat_history[1].session_id = chat_history[2].session_id
    /\ chat_history[1].turn = 1
    /\ chat_history[2].turn = 1

(***************************************************************************)
(* Properties of answer_question over drawn stores (SpecDrawn).            *)
(***************************************************************************)
\* the call that request slot r begins in this step
Begins(r) == requests[r] = NoCall /\ requests'[r] # NoCall

\* C13: a call that is not a command scopes its search to recent_document_id
\* when it is given, whatever the session's active document is, to the
\* active document when it is not, and to no document when there is neither:
\* the results are chunks of the scoping document when it has any, and the
\* TOP_K most similar of all chunks when there is none.
RecentDocumentComesFirst ==
    [][\A r \in Requests :
          Begins(r)
          => LET call == requests'[r]
                 pin == GetSessionDocument(session_documents, call.session_id)
                 scope == IF call.recent_document_id # None
                          THEN call.recent_document_id ELSE pin
             IN  /\ call.prioritize_doc_id = scope
                 /\ call.searches = 1
                 /\ (scope # None /\ ChunksOf(scope) # {})
                       => /\ call.similar_chunks # <<>>
                          /\ \A i \in 1..Len(call.similar_chunks) :
                                call.similar_chunks[i].document_id = scope
                 /\ scope = None
                       => Len(call.similar_chunks) = Min(TOP_K, Cardinality(chunks))]_vars

\* a call was given a recent document while its session had another active
\* document with chunks: the results are of the recent document
RecentOverridesActive ==
    /\ last.path = "answer"
    /\ ~last.raised
    /\ last.recent_document_id # None
    /\ last.active_doc_id \notin {None, last.recent_document_id}
    /\ ChunksOf(last.active_doc_id) # {}
    /\ last.similar_chunks # <<>>
    /\ \A i \in 1..Len(last.similar_chunks) :
          last.similar_chunks[i].document_id = last.recent_document_id

\* C14: a which-document command names the session's active document, with
\* one source entry (its title, its source, similarity 1.00), when the session
\* has one and the lookup finds its row; with no active document, with its
\* row absent or with a lookup that raises, it returns the fixed message and
\* no sources; context_size is 0 either way.
WhichNamesTheActiveDocument ==
    [][(last' # last /\ CommandOf[last'.question] = "which")
       => LET pin == GetSessionDocument(session_documents, last'.session_id)
              rows == {d \in documents : d.id = pin}
              found == /\ pin # None
                       /\ rows # {}
                       /\ "_get_document_info" \notin last'.errors
          IN  /\ ~last'.raised
              /\ last'.response.context_size = 0
              /\ found
                    => \E d \in rows :
                          /\ Contains(last'.response.answer, d.title)
                          /\ StartsWith(last'.response.answer, ACTIVE_DOCUMENT_PREFIX)
                          /\ last'.response.sources
                                = <<[title |-> d.title, source |-> d.source,
                                     similarity |-> 100]>>
              /\ ~found
                    => /\ last'.response.answer = NO_ACTIVE_DOCUMENT_ANSWER
                       /\ last'.response.sources = <<>>]_vars

\* a which-document command found the active document of its session
WhichFoundTheDocument ==
    /\ last.path = "which"
    /\ last.active_doc_id \in {d.id : d \in documents}
    /\ last.errors = {}
    /\ Len(last.response.sources) = 1
    /\ last.response.sources[1].similarity = 100

\* a which-document command whose lookup raised, or whose active document
\* has no row, returned the fixed message
WhichLookupFailed ==
    /\ last.path = "which"
    /\ last.active_doc_id # None
    /\ last.response.answer = NO_ACTIVE_DOCUMENT_ANSWER

\* the call that returns in this step: not a command, made and finished
\* while the store held no chunk
ReturnsOnEmptyStore ==
    /\ last' # last
    /\ last'.path = "answer"
    /\ ~last'.raised
    /\ chunks = {}

\* what such a call returns and appends, whatever its answer is
EmptyStoreResponse ==
    /\ last'.similar_chunks = <<>>
    /\ last'.response.context_size = 0
    /\ last'.response.sources = <<>>
    /\ last'.generations = 1
    /\ last'.messages[Len(last'.messages)] = [role |-> "user", content |-> last'.question]
    /\ Buffer(memories', last'.session_id)
          = Buffer(memories, last'.session_id)
              \o Exchange(last'.question, last'.response.answer)
    /\ SessionTurns(chat_history', last'.session_id)
          = SessionTurns(chat_history, last'.session_id)
              \o SavedTurns(last'.question, last'.response.answer, <<TRUE, TRUE>>)

UploadedDocumentScopesSources ==
    (/\ last.path = "answer"
     /\ ~last.raised
     /\ last.recent_document_id \in {d.id : d \in Uploaded}
     /\ ChunksOf(last.recent_document_id) # {})
        => LET doc == CHOOSE d \in Uploaded : d.id = last.recent_document_id
               own == ChunksOf(doc.id)
               results == last.similar_chunks
               sources == last.response.sources
           IN  /\ results # <<>>
               /\ Len(results) <= Cardinality(own)
               /\ \A i \in 1..Len(results) :
                     /\ results[i].document_id = doc.id
                     /\ \E c \in own : c.content = results[i].content
               /\ Len(sources) <= Cardinality(own)
               /\ \A i \in 1..Len(sources), j \in 1..Len(sources) :
                     sources[i] = sources[j] => i = j
               /\ \A i \in 1..Len(sources) :
                     /\ sources[i].title = doc.title
                     /\ sources[i].source = doc.source

\* a call given the uploaded document of three chunks got its three chunks,
\* while the other document has chunks too, and returned a source
ThreeChunksOfTheUpload ==
    /\ last.path = "answer"
    /\ ~last.raised
    /\ last.recent_document_id \in {d.id : d \in Uploaded}
    /\ Cardinality(ChunksOf(last.recent_document_id)) = 3
    /\ Len(last.similar_chunks) = 3
    /\ last.response.sources # <<>>
    /\ \E c \in chunks : c.document_id # last.recent_document_id

(***************************************************************************)
(* Properties of the buffer of a session (SpecReload).                     *)
(***************************************************************************)
\* C17: the buffer of a session never holds more than the 10 most recent
\* turns.
BufferHoldsAtMostTen ==
    \A s \in DOMAIN memories : Len(memories[s]) <= HISTORY_LIMIT

\* the message the buffer holds for a row of chat_history
MessageOf(row) ==
    [type |-> IF row.role = "user" THEN "human" ELSE "ai", content |-> row.content]

\* C18: the first call of a session in a process creates its buffer from the
\* min(10, n) rows of highest turn of the session's n rows, oldest first; a
\* call of a session that has a buffer leaves every buffer as it is.
BufferSeededOnce ==
    [][\A r \in Requests :
          Begins(r)
          => LET s == requests'[r].session_id
                 idx == SessionRows(chat_history, s)
                 n == Cardinality(idx)
                 k == Min(HISTORY_LIMIT, n)
             IN  IF s \in DOMAIN memories
                 THEN memories' = memories
                 ELSE /\ DOMAIN memories' = DOMAIN memories \cup {s}
                      /\ \A o \in DOMAIN memories : memories'[o] = memories[o]
                      /\ Len(memories'[s]) = k
                      /\ \A i \in 1..k :
                            \E j \in idx :
                               /\ chat_history[j].turn = n - k + i
                               /\ memories'[s][i] = MessageOf(chat_history[j])]_vars

\* after a restart, a call found more than 10 rows, the last two written by
\* the call before the restart, and loaded the 10 of highest turn
ReloadedAfterRestart ==
    /\ \E r \in Requests : requests[r].path = "answer"
    /\ last.path = "answer"
    /\ ~last.raised
    /\ Cardinality(SessionRows(chat_history, "s1")) > HISTORY_LIMIT
    /\ "s1" \in DOMAIN memories
    /\ Len(memories["s1"]) = HISTORY_LIMIT
    /\ memories["s1"][HISTORY_LIMIT] = [type |-> "ai", content |-> last.response.answer]
    /\ memories["s1"][1].content = StoredContent(Cardinality(SessionRows(chat_history, "s1")) - 9)

(***************************************************************************)
(* Properties of the store errors of chat_history (SpecFaults).            *)
(***************************************************************************)
\* C19: when an INSERT into chat_history fails, answer_question still
\* returns its answer, the buffer gets the question and the answer, and
\* chat_history gets the turn whose INSERT did not fail (the assistant turn
\* also after a failed user turn) and loses none of its rows.
FailedWriteLosesOnlyItsTurn ==
    [][(/\ last' # last
        /\ last'.generations = 1
        /\ last'.saved # <<TRUE, TRUE>>)
       => /\ ~last'.raised
          /\ Len(last'.saved) = 2
          /\ last'.response.answer = GenerationAnswer(last'.outcome).answer
          /\ Buffer(memories', last'.session_id)
                = Buffer(memories, last'.session_id)
                    \o Exchange(last'.question, last'.response.answer)
          /\ Len(chat_history')
                = Len(chat_history) + Cardinality({i \in 1..2 : last'.saved[i]})
          /\ SubSeq(chat_history', 1, Len(chat_history)) = chat_history
          /\ SessionTurns(chat_history', last'.session_id)
                = SessionTurns(chat_history, last'.session_id)
                    \o SavedTurns(last'.question, last'.response.answer, last'.saved)]_vars

\* the INSERT of the question failed and the INSERT of the answer did not:
\* the last row is the answer, and the buffer ends with question and answer
AnswerSavedAfterFailedQuestion ==
    /\ last.path = "answer"
    /\ ~last.raised
    /\ last.saved = <<FALSE, TRUE>>
    /\ chat_history # <<>>
    /\ chat_history[Len(chat_history)].role = "assistant"
    /\ chat_history[Len(chat_history)].content = last.response.answer
    /\ Len(chat_history) % 2 = 1
    /\ Len(memories[last.session_id]) >= 2
    /\ memories[last.session_id][Len(memories[last.session_id]) - 1]
          = [type |-> "human", content |-> last.question]

\* C20: when the SELECT of _load_history_from_db raises while the buffer of
\* a session is created, the session gets an empty buffer, the request holds
\* no history message (the system prompt and the current input only), and
\* answer_question returns.
FailedReadGivesEmptyBuffer ==
    [][/\ \A r \in Requests :
             (Begins(r) /\ "_load_history_from_db" \in requests'[r].errors)
             => /\ requests'[r].session_id \in DOMAIN memories'
                /\ memories'[requests'[r].session_id] = <<>>
                /\ Len(requests'[r].messages) = 2
                /\ requests'[r].messages[1].role = "system"
                /\ requests'[r].messages[2].role = "user"
       /\ (last' # last /\ "_load_history_from_db" \in last'.errors)
             => /\ ~last'.raised
                /\ last'.generations = 1
                /\ Len(last'.messages) = 2]_vars

\* a call whose read of the two stored rows raised has returned: the buffer
\* holds its exchange only
AnsweredWithoutStoredHistory ==
    /\ last.path = "answer"
    /\ ~last.raised
    /\ last.errors = {"_load_history_from_db"}
    /\ last.saved = <<TRUE, TRUE>>
    /\ Len(chat_history) = 4
    /\ Len(last.messages) = 2
    /\ Len(memories[last.session_id]) = 2

(***************************************************************************)
(* Properties of a failed retrieval (SpecFaults).                          *)
(***************************************************************************)
\* C21: when the query of _search_similar_chunks raises, answer_question
\* raises: it returns no answer, makes no generation call, and leaves the
\* buffers, chat_history and the active documents as they were.
FailedSearchRaises ==
    [][(last' # last /\ "_search_similar_chunks" \in last'.errors)
       => /\ last'.raised
          /\ last'.generations = 0
          /\ last'.messages = <<>>
          /\ last'.response = NoResponse
          /\ memories' = memories
          /\ chat_history' = chat_history
          /\ session_documents' = session_documents
          /\ requests' = requests]_vars

\* a call of a session with an active document and stored turns raised in
\* the search: no buffer was made, the turns and the active document stay
SearchFailedWithActiveDocument ==
    /\ last.path = "answer"
    /\ last.raised
    /\ last.errors = {"_search_similar_chunks"}
    /\ last.active_doc_id # None
    /\ GetSessionDocument(session_documents, "s1") = last.active_doc_id
    /\ Len(chat_history) = 2
    /\ memories = <<>>

(***************************************************************************)
(* Properties of the active documents (SpecPins).                          *)
(***************************************************************************)
\* the calls of SpecPins made so far
PinLog == returned.log

\* C22: _set_session_document(s, A), then _set_session_document(s, B), then
\* _get_session_document(s) returns B: a set overwrites the entry of the
\* session whatever it was, the session has one entry, that of the last set,
\* and the entries of the other sessions stay.
LastSetWins ==
    /\ \A i \in 1..Len(PinLog) :
          PinLog[i].function = "_set_session_document"
          => /\ ~PinLog[i].raised
             /\ DOMAIN PinLog[i].after = DOMAIN PinLog[i].before \cup {PinLog[i].session_id}
             /\ PinLog[i].after[PinLog[i].session_id] = PinLog[i].document_id
             /\ \A t \in DOMAIN PinLog[i].before \ {PinLog[i].session_id} :
                   PinLog[i].after[t] = PinLog[i].before[t]
    /\ \A i \in 1..Len(PinLog), j \in 1..Len(PinLog) :
          (/\ i < j
           /\ PinLog[i].function = "_set_session_document"
           /\ PinLog[j].function = "_get_session_document"
           /\ PinLog[j].session_id = PinLog[i].session_id
           /\ \A k \in (i + 1)..(j - 1) :
                 PinLog[k].session_id = PinLog[i].session_id
                 => PinLog[k].function = "_get_session_document")
          => /\ ~PinLog[j].raised
             /\ PinLog[j].value = PinLog[i].document_id
             /\ PinLog[j].after = PinLog[j].before

\* set(s, A), set(s, B) with another document B, get(s) were called and the
\* get returned B
SetTwiceThenGet ==
    /\ Len(PinLog) = 3
    /\ PinLog[1].function = "_set_session_document"
    /\ PinLog[2].function = "_set_session_document"
    /\ PinLog[3].function = "_get_session_document"
    /\ PinLog[1].session_id = PinLog[2].session_id
    /\ PinLog[3].session_id = PinLog[2].session_id
    /\ PinLog[1].document_id # PinLog[2].document_id
    /\ PinLog[3].value = PinLog[2].document_id

\* C23: _clear_session_document(s) for a session without an entry does not
\* raise and leaves session_documents as it was; a clear after a clear
\* changes nothing; and _get_session_document(s) after a clear returns None.
ClearIsIdempotent ==
    /\ \A i \in 1..Len(PinLog) :
          PinLog[i].function = "_clear_session_document"
          => /\ ~PinLog[i].raised
             /\ PinLog[i].session_id \notin DOMAIN PinLog[i].after
             /\ PinLog[i].session_id \notin DOMAIN PinLog[i].before
                   => PinLog[i].after = PinLog[i].before
             /\ \A t \in DOMAIN PinLog[i].before \ {PinLog[i].session_id} :
                   /\ t \in DOMAIN PinLog[i].after
                   /\ PinLog[i].after[t] = PinLog[i].before[t]
             /\ ClearSessionDocument(PinLog[i].after, PinLog[i].session_id)
                   = PinLog[i].after
    /\ \A i \in 1..Len(PinLog), j \in 1..Len(PinLog) :
          (/\ i < j
           /\ PinLog[i].function = "_clear_session_document"
           /\ PinLog[j].session_id = PinLog[i].session_id
           /\ PinLog[j].function # "_set_session_document"
           /\ \A k \in (i + 1)..(j - 1) :
                 PinLog[k].session_id = PinLog[i].session_id
                 => PinLog[k].function # "_set_session_document")
          => /\ ~PinLog[j].raised
             /\ PinLog[j].value = None
             /\ PinLog[j].after = PinLog[j].before

\* a session without an entry was cleared twice while the other session had
\* an entry, and its get returned None
ClearedTwiceWithoutEntry ==
    /\ Len(PinLog) = 4
    /\ PinLog[1].function = "_set_session_document"
    /\ PinLog[2].function = "_clear_session_document"
    /\ PinLog[3].function = "_clear_session_document"
    /\ PinLog[4].function = "_get_session_document"
    /\ PinLog[2].session_id # PinLog[1].session_id
    /\ PinLog[3].session_id = PinLog[2].session_id
    /\ PinLog[4].session_id = PinLog[2].session_id
    /\ PinLog[4].value = None
    /\ session_documents = PinLog[1].after

(***************************************************************************)
(* Properties of the sessions (SpecSessions).                              *)
(***************************************************************************)
\* the documents a step stored with all the chunks of their file
StoredWhole ==
    {d \in documents' \ documents :
        \E f \in Files :
            /\ f.filename = d.title
            /\ Cardinality({c \in chunks' : c.document_id = d.id}) = Len(f.chunks)}

\* C24: the active document of a session changes only in a process_document
\* of that session that stored all its rows (to the new document) and in a
\* forget command of that session (to none); a question that is no command,
\* with or without recent_document_id, a which-document command and a call
\* that raises leave the active documents as they were.
ActiveDocumentChangesBySetOrForget ==
    [][/\ \A s \in Sessions :
             GetSessionDocument(session_documents', s) # GetSessionDocument(session_documents, s)
             => \/ \E d \in StoredWhole : GetSessionDocument(session_documents', s) = d.id
                \/ /\ last' # last
                   /\ last'.path = "forget"
                   /\ last'.session_id = s
                   /\ GetSessionDocument(session_documents', s) = None
       /\ (last' # last /\ last'.path \in {"which", "answer"})
             => session_documents' = session_documents
       /\ (\E r \in Requests : Begins(r)) => session_documents' = session_documents
       /\ (documents' # documents /\ StoredWhole = {})
             => session_documents' = session_documents]_vars

\* a question with the recent_document_id of another document was answered
\* for a session that has an active document, and the session still has it
ActiveDocumentKeptByAnswer ==
    /\ last.path = "answer"
    /\ ~last.raised
    /\ last.generations = 1
    /\ last.active_doc_id # None
    /\ last.recent_document_id # None
    /\ last.recent_document_id # last.active_doc_id
    /\ GetSessionDocument(session_documents, last.session_id) = last.active_doc_id

\* what the service holds for a session: its active document, its buffer,
\* and its rows of chat_history in the order of the store
SessionState(pins, mems, history, session_id) ==
    LET OfSession(row) == row.session_id = session_id
    IN  [active |-> GetSessionDocument(pins, session_id),
         buffered |-> session_id \in DOMAIN mems,
         buffer |-> Buffer(mems, session_id),
         rows |-> SelectSeq(history, OfSession)]

\* the step changes what the service holds for the session
Changes(session_id) ==
    SessionState(session_documents', memories', chat_history', session_id)
        # SessionState(session_documents, memories, chat_history, session_id)

\* the step belongs to an operation of the session: its answer_question
\* call starts, returns or raises, or its process_document makes the new
\* document its active document
ActsFor(session_id) ==
    \/ last' # last /\ last'.session_id = session_id
    \/ \E r \in Requests : Begins(r) /\ requests'[r].session_id = session_id
    \/ /\ documents' # documents
       /\ \E d \in documents' \ documents :
             GetSessionDocument(session_documents', session_id) = d.id

\* C25: whatever the interleaving of the requests, a step of an operation of
\* a session changes the active document, the buffer and the rows of
\* chat_history of that session only.
SessionsDoNotInterfere ==
    [][/\ \A t \in Sessions : Changes(t) => ActsFor(t)
       /\ \A s \in Sessions, t \in Sessions : (ActsFor(s) /\ Changes(t)) => s = t]_vars

\* while a question of "s2" awaited its generation, a question of "s1" was
\* answered, and "s2" has the active document, the buffer and the rows it
\* had
AnsweredWhileOtherSessionWaits ==
    /\ \E r \in Requests :
          /\ requests[r].path = "answer"
          /\ requests[r].session_id = "s2"
          /\ requests[r].call < last.call
    /\ last.path = "answer"
    /\ last.session_id = "s1"
    /\ ~last.raised
    /\ Len(Buffer(memories, "s1")) = 2
    /\ SessionState(session_documents, memories, chat_history, "s2")
          = SessionState(WarmState.session_documents, WarmState.memories,
                         WarmState.chat_history, "s2")
    /\ GetSessionDocument(session_documents, "s2") # None

\* C26: a process_document that raises (no text extracted, or an INSERT or
\* an embedding that fails inside the chunk loop) leaves no document row and
\* no chunk row in the store: a document row in the store has all the
\* chunks of its file.
FailedUploadLeavesNoRows ==
    [][documents' # documents => StoredWhole = documents' \ documents]_vars

(***************************************************************************)
(* Properties of the context and the sources (SpecContext).                *)
(***************************************************************************)
\* C27: the context_size returned is the number of characters of the
\* context when a chunk is in the context, and 0 when none is: the search
\* returned nothing, no result reaches the threshold, or the first result
\* that does is larger than the budget by itself.
ContextSizeIsLengthOrZero ==
    returned.function = "context"
        => LET Eligible(row) == row.similarity >= SIMILARITY_THRESHOLD
               eligible == SelectSeq(returned.similar_chunks, Eligible)
               none == \/ returned.similar_chunks = <<>>
                       \/ eligible = <<>>
                       \/ /\ eligible # <<>>
                          /\ PyLen(eligible[1].content) > MAX_CONTEXT_CHARS
           IN  /\ none <=> returned.context_parts = <<>>
               /\ none => returned.context_size = 0
               /\ ~none
                     => /\ returned.context_size = PyLen(returned.context)
                        /\ returned.context_size
                              = TotalChars(returned.context_parts)
                                   + 2 * (Len(returned.context_parts) - 1)
                        /\ returned.context_size > 0

\* the first result that reaches the threshold is larger than the budget,
\* a smaller one follows it: the context holds no chunk, and context_size is
\* 0 while the context is the sentence of 64 characters
OversizedFirstChunkGivesZero ==
    /\ returned.function = "context"
    /\ Len(returned.similar_chunks) = 3
    /\ returned.similar_chunks[1].similarity = 100
    /\ returned.similar_chunks[1].content = <<"<2500>">>
    /\ returned.similar_chunks[2].content = <<"<400>">>
    /\ returned.similar_chunks[2].similarity = 100
    /\ returned.context_parts = <<>>
    /\ returned.context = NO_RELEVANT_CONTEXT
    /\ PyLen(returned.context) = 64
    /\ returned.context_size = 0

\* C28: the sources returned hold no (title, source, similarity) twice, hold
\* the entries of the chunks in the context and no other, and are in the
\* order in which the ranked results brought them first.
SourcesAreFirstEncounters ==
    returned.function = "context"
        => LET Eligible(row) == row.similarity >= SIMILARITY_THRESHOLD
               eligible == SelectSeq(returned.similar_chunks, Eligible)
               sources == returned.sources
               included == [i \in 1..Len(returned.context_parts) |->
                               [title |-> eligible[i].title, source |-> eligible[i].source,
                                similarity |-> eligible[i].similarity]]
               First(entry) == SetMin({i \in 1..Len(included) : included[i] = entry})
           IN  /\ \A i \in 1..Len(sources), j \in 1..Len(sources) :
                     sources[i] = sources[j] => i = j
               /\ {sources[j] : j \in 1..Len(sources)}
                     = {included[i] : i \in 1..Len(included)}
               /\ \A i \in 1..Len(sources), j \in 1..Len(sources) :
                     i < j => First(sources[i]) < First(sources[j])

\* two results at 1.00 and one at 0.30 are in the context, one at 0.29 is
\* not: the sources are the entry at 1.00, once, and then the entry at 0.30
TwoEntriesForThreeChunks ==
    /\ returned.function = "context"
    /\ Len(returned.similar_chunks) = 4
    /\ returned.similar_chunks[1].similarity = 100
    /\ returned.similar_chunks[2].similarity = 100
    /\ returned.similar_chunks[3].similarity = 30
    /\ returned.similar_chunks[4].similarity = 29
    /\ Len(returned.context_parts) = 3
    /\ Len(returned.sources) = 2
    /\ returned.sources[1].similarity = 100
    /\ returned.sources[2].similarity = 30

(***************************************************************************)
(* Properties of the current input (SpecPrompt).                           *)
(***************************************************************************)
\* C29: the context is the sentence "Nenhum documento foi fornecido ainda."
\* iff the search returned no result, and the sentence "Não encontrei
\* informações relevantes ..." iff it returned results and none is in the
\* context; the last message of the request is the context followed by the
\* question iff the context is neither sentence, and the question alone
\* otherwise.
SentencesTellTheCase ==
    returned.function = "prompt"
        => LET context == returned.context
               final == returned.messages[Len(returned.messages)]
           IN  /\ context = NO_DOCUMENT_CONTEXT <=> returned.similar_chunks = <<>>
               /\ context = NO_RELEVANT_CONTEXT
                     <=> (returned.similar_chunks # <<>> /\ returned.context_parts = <<>>)
               /\ final.role = "user"
               /\ context \notin {NO_DOCUMENT_CONTEXT, NO_RELEVANT_CONTEXT}
                     <=> final.content
                            = CONTEXT_HEADER \o context \o QUESTION_HEADER \o returned.question
               /\ context \in {NO_DOCUMENT_CONTEXT, NO_RELEVANT_CONTEXT}
                     => final.content = returned.question

\* C29, as the code has it: without results the context is the first
\* sentence, with results of which none is in the context it is the second,
\* and otherwise it is the chunks joined, which may be the text of one of
\* the sentences; the last message of the request is the context followed
\* by the question iff the context is neither sentence, and the question
\* alone otherwise.
SentencesFollowTheCase ==
    returned.function = "prompt"
        => LET context == returned.context
               final == returned.messages[Len(returned.messages)]
           IN  /\ returned.similar_chunks = <<>> => context = NO_DOCUMENT_CONTEXT
               /\ (returned.similar_chunks # <<>> /\ returned.context_parts = <<>>)
                     => context = NO_RELEVANT_CONTEXT
               /\ returned.context_parts # <<>>
                     => context = Join(returned.context_parts, <<"\n", "\n">>)
               /\ final.role = "user"
               /\ context \notin {NO_DOCUMENT_CONTEXT, NO_RELEVANT_CONTEXT}
                     <=> final.content
                            = CONTEXT_HEADER \o context \o QUESTION_HEADER \o returned.question
               /\ context \in {NO_DOCUMENT_CONTEXT, NO_RELEVANT_CONTEXT}
                     => final.content = returned.question

\* the one result, at 1.00, is in the context and its text is the first
\* sentence: the last message is the question alone
ChunkWithTheTextOfASentence ==
    /\ returned.function = "prompt"
    /\ Len(returned.similar_chunks) = 1
    /\ returned.similar_chunks[1].similarity = 100
    /\ returned.context_parts = <<NO_DOCUMENT_CONTEXT>>
    /\ returned.context = NO_DOCUMENT_CONTEXT
    /\ returned.messages[Len(returned.messages)].content = returned.question

(***************************************************************************)
(* Properties of the order of the steps of answer_question (SpecFaults).   *)
(***************************************************************************)
\* C30: a question that is no command goes through its steps in order.  Up
\* to the generation call: the document to prioritize is resolved from the
\* argument and the active document, the search is made with it, the context
\* is built from its results, the buffer is read (and made, when the session
\* has none) after the search, and the request is the system prompt, the
\* buffer as it was before this question, and the current input; nothing is
\* added to the buffer or to chat_history.  A call that raised before the
\* generation call has read and written nothing.  After the generation call
\* has returned or failed, the request is the one sent, and the question and
\* the answer are added to the buffer and, as far as the store accepts them,
\* to chat_history.
StepsRunInOrder ==
    [][/\ \A r \in Requests :
             Begins(r)
             => LET call == requests'[r]
                    s == call.session_id
                    built == AssembleContext(call.similar_chunks)
                IN  /\ call.prioritize_doc_id
                          = PrioritizeDocId(session_documents, s, call.recent_document_id)
                    /\ \E e \in QueryEmbeddings :
                          call.similar_chunks
                              \in SearchSimilarChunks(chunks, documents, e, TOP_K,
                                                      call.prioritize_doc_id)
                    /\ call.context_parts = built.context_parts
                    /\ call.context = built.context
                    /\ call.sources = built.sources
                    /\ s \in DOMAIN memories'
                    /\ s \in DOMAIN memories => memories'[s] = memories[s]
                    /\ s \notin DOMAIN memories
                          => Len(memories'[s]) <= Cardinality(SessionRows(chat_history, s))
                    /\ call.messages
                          = <<[role |-> "system", content |-> SYSTEM_PROMPT]>>
                               \o ParseHistory(HistoryText(memories'[s]))
                               \o <<[role |-> "user",
                                     content |-> UserInput(call.context_parts, call.context,
                                                           call.question)]>>
                    /\ call.generations = 1
                    /\ call.outcome = NoOutcome
                    /\ call.saved = <<>>
                    /\ chat_history' = chat_history
                    /\ last' = last
       /\ (last' # last /\ last'.path = "answer" /\ last'.generations = 0)
             => /\ last'.raised
                /\ last'.messages = <<>>
                /\ memories' = memories
                /\ chat_history' = chat_history
       /\ (last' # last /\ last'.path = "answer" /\ last'.generations = 1)
             => \E r \in Requests :
                   /\ requests[r].call = last'.call
                   /\ requests'[r] = NoCall
                   /\ last'.messages = requests[r].messages
                   /\ last'.similar_chunks = requests[r].similar_chunks
                   /\ ~last'.raised
                   /\ Buffer(memories', last'.session_id)
                         = Buffer(memories, last'.session_id)
                             \o Exchange(last'.question, last'.response.answer)
                   /\ SessionTurns(chat_history', last'.session_id)
                         = SessionTurns(chat_history, last'.session_id)
                             \o SavedTurns(last'.question, last'.response.answer,
                                           last'.saved)]_vars

\* a call read the two stored turns, the first of them a question with the
\* text of the current one, sent them between the system prompt and the
\* current input, and after the generation failed added its two turns
HistoryHeldTheEarlierQuestion ==
    /\ last.path = "answer"
    /\ ~last.raised
    /\ last.outcome.raises # None
    /\ Len(last.messages) = 4
    /\ last.messages[2] = [role |-> "user", content |-> last.question]
    /\ last.messages[3].role = "assistant"
    /\ last.messages[4].role = "user"
    /\ Len(Buffer(memories, last.session_id)) = 4
    /\ Len(chat_history) = 4

(***************************************************************************)
(* Properties of the request (SpecHistory).                                *)
(***************************************************************************)
\* C31: the request is a list that starts with the one system message, goes
\* on with the turns parsed from the rendered buffer, in the order of the
\* buffer, and ends with the one user message of the current input; it has
\* 2 messages more than turns were parsed.
RequestIsSystemHistoryInput ==
    returned.function = "history"
        => LET request == returned.request
               parsed == returned.messages
               n == Len(request)
           IN  /\ n = 2 + Len(parsed)
               /\ request[1] = [role |-> "system", content |-> SYSTEM_PROMPT]
               /\ \A i \in 2..n : request[i].role \in {"user", "assistant"}
               /\ request[n] = [role |-> "user", content |-> returned.user_input]
               /\ \A i \in 1..Len(parsed) : request[i + 1] = parsed[i]
               /\ \E f \in [1..Len(parsed) -> 1..Len(returned.memory)] :
                     /\ \A i \in 1..Len(parsed), j \in 1..Len(parsed) : i < j => f[i] <= f[j]
                     /\ \A i \in 1..Len(parsed) :
                           /\ parsed[i].role
                                 = IF returned.memory[f[i]].type = "human" THEN "user"
                                   ELSE "assistant"
                           /\ parsed[i].content = <<>>
                                 \/ Contains(returned.memory[f[i]].content, parsed[i].content)

\* the buffer holds a question and an answer: the request is the system
\* message, the two turns in that order, and the current input
RequestWithTwoTurns ==
    /\ returned.function = "history"
    /\ Len(returned.memory) = 2
    /\ returned.memory[1].type = "human"
    /\ returned.memory[2].type = "ai"
    /\ Len(returned.request) = 4
    /\ returned.request[2].role = "user"
    /\ returned.request[3].role = "assistant"
    /\ returned.request[2].content # returned.request[3].content
    /\ returned.request[4].content = returned.user_input

(***************************************************************************)
(* Properties of process_document (SpecSessions).                          *)
(***************************************************************************)
\* C32: a process_document that stored all its rows has stored, for a text
\* split into n chunks, n chunk rows of the new document: the k-th chunk of
\* the splitter at chunk_index k - 1, for k = 1..n, and no other row; the
\* rows of the other documents stay.
ChunkIndexesCountFromZero ==
    [][\A d \in StoredWhole :
          \E f \in Files :
             /\ f.filename = d.title
             /\ chunks' \ chunks
                   = {[document_id |-> d.id, chunk_index |-> k - 1,
                       content |-> f.chunks[k].content,
                       embedding |-> f.chunks[k].embedding] : k \in 1..Len(f.chunks)}
             /\ {c.chunk_index : c \in chunks' \ chunks} = 0..(Len(f.chunks) - 1)
             /\ Cardinality(chunks' \ chunks) = Len(f.chunks)
             /\ chunks \subseteq chunks'
             /\ \A c \in chunks : c.document_id # d.id]_vars

\* the file of three chunks was stored as a second document: its rows have
\* the indexes 0, 1, 2 next to the rows of the first document
SecondDocumentOfThreeChunks ==
    /\ Cardinality(documents) = 2
    /\ \E d \in SessionUploads :
          /\ {c.chunk_index : c \in {x \in chunks : x.document_id = d.id}} = {0, 1, 2}
          /\ Cardinality({x \in chunks : x.document_id = d.id}) = 3
          /\ \E c \in chunks : c.document_id # d.id

\* C33: process_document makes the new document the active document of the
\* session it was given only when the document row and all the chunk rows
\* were stored; when an INSERT fails, the active documents stay as they
\* were, and without a session id they stay too.
ActiveDocumentSetAfterAllRows ==
    [][\A s \in Sessions \cup {None}, f \in Files :
          \A stored \in 1..Complete(f) :
             ProcessDocument(s, f, stored)
             => IF stored = Complete(f) /\ s # None
                THEN \E d \in StoredWhole :
                        /\ documents' = documents \cup {d}
                        /\ session_documents'
                              = SetSessionDocument(session_documents, s, d.id)
                        /\ GetSessionDocument(session_documents', s) = d.id
                ELSE session_documents' = session_documents]_vars

\* an upload of "s2", which has an active document, stopped after its first
\* chunk row: the rows are in the store and "s2" has the document it had
FailedUploadKeepsActiveDocument ==
    /\ last = NoCall
    /\ Cardinality(documents) = 2
    /\ \E d \in SessionUploads :
          /\ Cardinality({x \in chunks : x.document_id = d.id}) = 1
          /\ GetSessionDocument(session_documents, "s2") \notin {None, d.id}
    /\ GetSessionDocument(session_documents, "s1") = None

NoDuplicateTurns(history) ==
    \A i \in 1..Len(history), j \in 1..Len(history) :
        (i # j /\ history[i].session_id = history[j].session_id)
            => history[i].turn # history[j].turn

\* C35: in one service process, a call that is not a command and that
\* returns puts its question and its answer next to each other at the end
\* of the buffer and of chat_history, whatever other request is in flight,
\* with the two turn numbers that follow the session's maximum; no two rows
\* of a session ever have the same turn number.
ExchangeIsNotInterleaved ==
    [][/\ (last' # last /\ last'.path = "answer" /\ ~last'.raised)
             => LET s == last'.session_id
                    m == MaxTurn(chat_history, s)
                    n == Len(chat_history)
                    b == Len(Buffer(memories, s))
                IN  /\ Len(chat_history') = n + 2
                    /\ SubSeq(chat_history', 1, n) = chat_history
                    /\ chat_history'[n + 1]
                          = [session_id |-> s, turn |-> m + 1, role |-> "user",
                             content |-> last'.question]
                    /\ chat_history'[n + 2]
                          = [session_id |-> s, turn |-> m + 2, role |-> "assistant",
                             content |-> last'.response.answer]
                    /\ Len(memories'[s]) = b + 2
                    /\ SubSeq(memories'[s], 1, b) = Buffer(memories, s)
                    /\ memories'[s][b + 1]
                          = [type |-> "human", content |-> last'.question]
                    /\ memories'[s][b + 2]
                          = [type |-> "ai", content |-> last'.response.answer]
       /\ NoDuplicateTurns(chat_history')]_vars

\* two calls of one session overlapped: the second one returned while the
\* first awaited its generation, then the first returned; the four rows have
\* the turn numbers 1 to 4
OverlappingCallsBothStored ==
    /\ last.path = "answer"
    /\ ~last.raised
    /\ last.call = 1
    /\ Len(chat_history) = 4
    /\ \A i \in 1..4 :
          chat_history[i].session_id = last.session_id /\ chat_history[i].turn = i
    /\ chat_history[3].content = last.question
    /\ chat_history[4].content = last.response.answer
    /\ Len(memories[last.session_id]) = 4

\* the messages of a request between the system prompt and the current input
HistoryPart(messages) == SubSeq(messages, 2, Len(messages) - 1)

\* the request r awaits its generation before and after the step
Waits(r) == requests[r] # NoCall /\ requests'[r] # NoCall

\* C36: a call that is not a command builds its messages from the buffer as
\* it is when the call begins, and they stay as built until the call
\* returns; when a call returns while another call of its session awaits its
\* generation, the returning call's turns go to the end of the buffer and
\* get the turn numbers above all the session's rows, and the waiting call's
\* messages hold fewer turns than the buffer.
PromptIsBuiltBeforeGeneration ==
    [][\A r \in Requests :
          /\ (Begins(r) /\ requests'[r].path = "answer")
                => HistoryPart(requests'[r].messages)
                      = ParseHistory(HistoryText(memories'[requests'[r].session_id]))
          /\ Waits(r) => requests'[r] = requests[r]
          /\ (/\ Waits(r)
              /\ last' # last
              /\ last'.path = "answer"
              /\ ~last'.raised
              /\ requests[r].session_id = last'.session_id)
                => LET s == last'.session_id
                       n == Len(chat_history)
                   IN  /\ Len(HistoryPart(requests'[r].messages)) < Len(memories'[s])
                       /\ memories'[s]
                             = memories[s] \o Exchange(last'.question, last'.response.answer)
                       /\ Len(chat_history') = n + 2
                       /\ \A i \in 1..n :
                             chat_history[i].session_id = s
                                => /\ chat_history[i].turn < chat_history'[n + 1].turn
                                   /\ chat_history[i].turn < chat_history'[n + 2].turn]_vars

\* the second call of a session began while the first awaited its
\* generation and returned after it: its messages hold no turn, the buffer
\* and the store hold the first call's turns before its own
LaterPromptLacksEarlierTurns ==
    /\ last.path = "answer"
    /\ ~last.raised
    /\ last.call = 2
    /\ HistoryPart(last.messages) = <<>>
    /\ Len(Buffer(memories, last.session_id)) = 4
    /\ Len(chat_history) = 4
    /\ \A i \in 1..4 : chat_history[i].session_id = last.session_id

(***************************************************************************)
(* Properties of the end of the context loop (SpecContext).                *)
(***************************************************************************)
\* the results of a list that reach the threshold, in the order of the list
EligibleResults(similar_chunks) ==
    LET Eligible(row) == row.similarity >= SIMILARITY_THRESHOLD
    IN  SelectSeq(similar_chunks, Eligible)

\* the contents of the first k results of a list
ContentsOfFirst(rows, k) == [i \in 1..k |-> rows[i].content]

\* C37: the chunks of the context are the first k results that reach the
\* threshold, for some k; k is below the position of every such result that,
\* added to all the ones before it, exceeds MAX_CONTEXT_CHARS, so no result
\* after the first one that does not fit is in the context, however small.
ContextIsPrefixOfEligible ==
    returned.function = "context"
        => LET eligible == EligibleResults(returned.similar_chunks)
               k == Len(returned.context_parts)
           IN  /\ k <= Len(eligible)
               /\ returned.context_parts = ContentsOfFirst(eligible, k)
               /\ \A j \in 1..Len(eligible) :
                     TotalChars(ContentsOfFirst(eligible, j)) > MAX_CONTEXT_CHARS
                        => k < j
               /\ \A j \in 1..Len(eligible) :
                     TotalChars(ContentsOfFirst(eligible, j)) <= MAX_CONTEXT_CHARS
                        => k >= j

\* three results reach the threshold, of 1500, 2500 and 400 characters: the
\* context is the first alone, though the third would fit after it
SmallerChunkAfterRejectedOne ==
    /\ returned.function = "context"
    /\ Len(returned.similar_chunks) = 3
    /\ \A i \in 1..3 : returned.similar_chunks[i].similarity >= SIMILARITY_THRESHOLD
    /\ returned.similar_chunks[1].content = <<"<1500>">>
    /\ returned.similar_chunks[2].content = <<"<2500>">>
    /\ returned.similar_chunks[3].content = <<"<400>">>
    /\ returned.context_parts = <<returned.similar_chunks[1].content>>
    /\ returned.context_size = 1500

(***************************************************************************)
(* Properties of a buffer seeded by a failed read (SpecSeeded).            *)
(***************************************************************************)
\* the contents of the rows stored before the process started
StoredContents == {StoredContent(turn) : turn \in 1..14}

\* a sequence of messages holds a turn stored before the process started
HoldsStoredTurn(messages) ==
    \E i \in 1..Len(messages) : messages[i].content \in StoredContents

\* C38: a call whose read of the history fails gives its session an empty
\* buffer; a call for a session that has a buffer leaves the buffers as they
\* are, whether the store can be read or not, and builds its messages from
\* that buffer; once the session has a buffer without the turns stored
\* before the process started, those turns are in no later buffer and in no
\* later request; the rows a call stores have turn numbers above those of
\* all the session's rows.
SeededBufferIsNeverReloaded ==
    [][/\ \A r \in Requests :
             LET s == requests'[r].session_id
             IN  /\ (Begins(r) /\ "_load_history_from_db" \in requests'[r].errors)
                       => /\ s \notin DOMAIN memories
                          /\ memories'[s] = <<>>
                          /\ HistoryPart(requests'[r].messages) = <<>>
                 /\ (Begins(r) /\ s \in DOMAIN memories)
                       => /\ memories' = memories
                          /\ HistoryPart(requests'[r].messages)
                                = ParseHistory(HistoryText(memories[s]))
       /\ \A s \in DOMAIN memories :
             ~HoldsStoredTurn(memories[s])
                => /\ ~HoldsStoredTurn(memories'[s])
                   /\ \A r \in Requests :
                         (Begins(r) /\ requests'[r].session_id = s)
                            => ~HoldsStoredTurn(requests'[r].messages)
       /\ (last' # last /\ last'.path = "answer" /\ ~last'.raised)
             => LET n == Len(chat_history)
                IN  /\ Len(chat_history') = n + 2
                    /\ \A i \in 1..n :
                          chat_history[i].session_id = last'.session_id
                             => chat_history[i].turn < chat_history'[n + 1].turn
                    /\ chat_history'[n + 2].turn = chat_history'[n + 1].turn + 1]_vars

\* the first call of the process could not read the two rows in the store;
\* the second call, made when the store could be read, was sent the first
\* call's exchange as its whole history, and its rows got the turns 5 and 6
SecondCallAfterFailedRead ==
    /\ last.path = "answer"
    /\ ~last.raised
    /\ last.call = 2
    /\ last.errors = {}
    /\ Len(chat_history) = 6
    /\ chat_history[1].content = StoredContent(1)
    /\ chat_history[2].content = StoredContent(2)
    /\ chat_history[5].turn = 5
    /\ chat_history[6].turn = 6
    /\ Len(HistoryPart(last.messages)) = 2
    /\ ~HoldsStoredTurn(last.messages)
    /\ ~HoldsStoredTurn(memories["s1"])

(***************************************************************************)
(* Properties of the order of the command tests (SpecCommands).            *)
(***************************************************************************)
\* C39: a call whose question holds a forget phrase takes the forget path,
\* whether a recent_document_id is given or not and whether the question
\* holds a which-document phrase or not: it returns the confirmation, leaves
\* its session without active document, resolves no priority document and
\* makes no search; no call that takes the which-document path or that begins
\* a search has a question with a forget phrase.
ForgetIsTestedFirst ==
    [][/\ (last' # last /\ IsForgetCommand(last'.question))
             => /\ last'.path = "forget"
                /\ ~last'.raised
                /\ last'.response = ForgetResponse
                /\ last'.session_id \notin DOMAIN session_documents'
                /\ last'.prioritize_doc_id = None
                /\ last'.searches = 0
                /\ requests' = requests
       /\ (last' # last /\ last'.path = "which")
             => /\ ~IsForgetCommand(last'.question)
                /\ session_documents' = session_documents
       /\ \A r \in Requests :
             Begins(r) => /\ ~IsForgetCommand(requests'[r].question)
                          /\ ~IsWhichCommand(requests'[r].question)]_vars

\* a document was uploaded for a session and became its active document;
\* the call made with the id of the document and a question that holds a
\* forget phrase and a which-document phrase left the session without active
\* document, while the document is in the store
ForgetWithUploadLeavesNoActiveDocument ==
    /\ last.path = "forget"
    /\ IsWhichCommand(last.question)
    /\ last.recent_document_id # None
    /\ last.active_doc_id = last.recent_document_id
    /\ \E d \in documents : d.id = last.recent_document_id
    /\ last.session_id \notin DOMAIN session_documents
    /\ last.response = ForgetResponse
====
